---- MODULE Spec2Model ----
(***************************************************************************)
(* Model of the dr analyzer (src/src/analyzer.rs).                         *)
(*                                                                         *)
(* Part 1: the parallel coordinator, analyze_directory (mode "sync") and   *)
(* analyze_directory_async (mode "async"): a coordinator thread that       *)
(* scans, spawns min(max(jobs,1), len) workers, joins them in spawn order  *)
(* and aggregates; worker threads that draw file indices from the atomic   *)
(* next_index counter and run analyze_file_with_progress on each; and the  *)
(* mpsc channel the async variant sends AnalysisEvents into.               *)
(*                                                                         *)
(* Part 2: StreamingDrState: new, push_samples, process_slice and finalize *)
(* driven by a caller that pushes arbitrary slices, next to the batch      *)
(* reference compute_dr on the concatenation of what was pushed.           *)
(*                                                                         *)
(* Part 3: the decode loop of analyze_file_with_progress and analyze_stdin *)
(* on one stream of packets, feeding a StreamingDrState.                   *)
(*                                                                         *)
(* Part 4: scan_audio_files on one directory, entry by entry.              *)
(*                                                                         *)
(* Part 5: the report cache (src/src/cache.rs, src/src/models.rs):         *)
(* save_report and load_cached_report through the JSON document.           *)
(*                                                                         *)
(* Part 6: main (src/src/main.rs): the checks on the command line, the     *)
(* dispatch on the path, run_bulk and the plain directory mode.            *)
(*                                                                         *)
(* Part 7: finalize on states that hold up to MaxBlocks completed blocks.  *)
(*                                                                         *)
(* Part 8: one push_samples call followed iteration by iteration of the    *)
(* while loop of process_slice, for every sample rate >= 0.                *)
(*                                                                         *)
(* Part 9: the terminal user interface (src/src/tui/mod.rs, app.rs): the   *)
(* event drain, the regeneration keys and the cache, over the thread of    *)
(* Part 1.                                                                 *)
(*                                                                         *)
(* SpecFair is Part 1 under a fair scheduler.                              *)
(***************************************************************************)
EXTENDS Integers, Sequences, FiniteSets, Bags, TLC

\* ------------------------------------------------------------------ bounds
MaxFiles == 2        \* files returned by the scan: 0..MaxFiles
MaxJobs  == 2        \* requested jobs: 0..MaxJobs
MaxDr    == 1        \* dr values of analysable files: 0..MaxDr
MaxSamples == 6      \* samples pushed into one StreamingDrState: 0..MaxSamples
MaxPushes == 2       \* push_samples calls on one StreamingDrState: 0..MaxPushes
MaxPackets == 2      \* packets next_packet delivers before it fails: 0..MaxPackets

Min(a, b) == IF a < b THEN a ELSE b
Max(a, b) == IF a > b THEN a ELSE b

\* ------------------------------------------------------------- input files
\* A packet as next_packet / decode present it to the per-file loop:
\*   "ok"            decoded normally
\*   "other_track"   packet.track_id() != track_id
\*   "decode_error"  decode returns Error::DecodeError
\*   "decode_fatal"  decode returns another error
Packet(kind, bytes) == [kind |-> kind, bytes |-> bytes]

\* What the stream reports when its packets are exhausted:
\*   "eof" (IoError UnexpectedEof), "reset" (ResetRequired), "io_fatal" (other)
\* open_ok: File::open, probe, track selection and decoder creation succeed.
\* dr: the value finalize returns for the decoded audio of the file.
AudioFile(open_ok, size, pkts, end, dr, album) ==
    [open_ok |-> open_ok, size |-> size, pkts |-> pkts, end |-> end,
     dr |-> dr, album |-> album]

GoodFile(d)  == AudioFile(TRUE, 2, <<Packet("ok", 1)>>, "eof", d, "A")
BadOpenFile  == AudioFile(FALSE, 0, <<>>, "eof", 0, "none")
BadDecodeFile == AudioFile(TRUE, 2, <<Packet("decode_fatal", 1)>>, "eof", 0, "none")

FileKinds == {GoodFile(d) : d \in 0..MaxDr} \cup {BadOpenFile, BadDecodeFile}

\* The scan result: files[i] for i in 0..n-1, sorted by path; the path of
\* files[i] is identified with its rank i in that order.
FileLists == UNION {[0..(n - 1) -> FileKinds] : n \in 0..MaxFiles}

Workers == 0..(Max(MaxJobs, 1) - 1)

VARIABLES
    mode,         \* "sync": analyze_directory, "async": analyze_directory_async
    files,        \* the sorted scan result, a function on 0..len-1
    jobs,         \* the jobs argument
    cpc,          \* coordinator position
    ret,          \* return value of the function, NoResult while running
    next_index,   \* the AtomicUsize
    handles,      \* number of spawned worker threads
    joined,       \* number of handles joined so far
    collected,    \* indexed_results (sync) / tracks (async) while joining
    wpc,          \* worker position
    widx,         \* worker: idx / index drawn
    wpos,         \* worker: position in the packet stream of its file
    wbytes,       \* worker: bytes_decoded
    wres,         \* worker: result of the file analysis in hand
    wresults,     \* worker: local results vector
    events,       \* history: the send calls on the Sender, per event index
    chan,         \* the channel: events queued and not yet received, per index
    rxAlive,      \* the Receiver has not been dropped
    analyzed,     \* history: number of analyses begun per (worker, index)
    state,        \* the StreamingDrState, "none" before new
    pushed,       \* history: the samples passed to push_samples, concatenated
    whole,        \* history: every slice pushed so far held whole frames only
    pushes,       \* history: the number of push_samples calls so far
    out,          \* <<the tuple finalize returned>>, <<>> before
    track,        \* the source a single-file analysis reads
    fpc,          \* single-file analysis: "idle", "loop" or "done"
    next_pkt,     \* single-file analysis: the packet next_packet delivers next
    total_frames, \* single-file analysis: total_frames
    bytes_decoded,\* single-file analysis: bytes_decoded
    progress,     \* history: the values passed to on_progress, in call order
    fresult,      \* <<the Result the analysis returned>>, <<>> while it runs
    dir,          \* the directory scan_audio_files is called on
    spc,          \* scan: "idle", "iter" (inside the iterator chain) or "done"
    sidx,         \* scan: number of directory entries the iterator has yielded
    sfiles,       \* scan: the paths collected so far
    sret,         \* <<the Vec<PathBuf> the scan returned>>, <<>> while it runs
    report,       \* the AlbumResult handed to save_report
    cache_file,   \* <<the JSON document in dr_report.json>>, <<>> if missing
    kpc,          \* cache: "idle", "saved", "save_failed" or "loaded"
    loaded,       \* <<the AlbumResult load_cached_report returned>>, <<>> None
    cli,          \* the parsed command line (struct Cli)
    base,         \* the directory the path names: readable, its report files
    subdirs,      \* bulk: the sorted subdirectories with their report files
    mpc,          \* main: "start", "bulk" (inside the loop of run_bulk), "done"
    bi,           \* run_bulk: number of subdirectories the loop has handled
    tally,        \* run_bulk: the counters analyzed, skipped, failed
    analyses,     \* history: the analysis calls and their outcome, in order
    writes,       \* history: the report files written to, in order
    printed,      \* history: what println! put on standard output
    mexit,        \* <<what main returned>>, <<>> while it runs
    loop_pc,      \* one push_samples call: "idle", "loop", "done" or "aborted"
    loop_input,   \* one push_samples call: the argument interleaved
    loop_data,    \* one push_samples call: the slice process_slice works on
    loop_offset,  \* one push_samples call: offset of the while loop
    tpc,          \* TUI: "idle", "start", "loop" (inside run_loop) or "quit"
    app,          \* TUI: the App (tracks, album_result, view, ..)
    rx_run,       \* TUI: the analysis run whose channel rx receives from, 0
                  \*      for the dummy channel
    runs,         \* TUI history: analysis runs spawned so far
    launches,     \* TUI history: calls of tui::run so far
    report_json,  \* TUI: <<the AlbumResult saved in dr_report.json>>, <<>>
    list_run,     \* TUI history: the analysis run spawned for app.tracks,
                  \*      0 for a list filled from the cache
    applied       \* TUI history: <<run of an event, run the list awaited>>
                  \*      for every event applied to a row

\* the variables of the coordinator and its workers
coordvars == <<mode, files, jobs, cpc, ret, next_index, handles, joined,
               collected, wpc, widx, wpos, wbytes, wres, wresults, events, chan,
               rxAlive, analyzed>>

\* the variables of one StreamingDrState and its caller
dvars == <<state, pushed, whole, pushes, out>>

\* the variables of a single-file analysis
fvars == <<track, fpc, next_pkt, total_frames, bytes_decoded, progress, fresult>>

\* the variables of one scan_audio_files call
svars == <<dir, spc, sidx, sfiles, sret>>

\* the variables of the directory scan, the report cache and the command line
\* the variables of one save_report / load_cached_report round
kvars == <<report, cache_file, kpc, loaded>>

\* the variables of one run of main
mvars == <<cli, base, subdirs, mpc, bi, tally, analyses, writes, printed, mexit>>

\* the variables of one push_samples call followed iteration by iteration
lvars == <<loop_pc, loop_input, loop_data, loop_offset>>

\* the variables of the parts that follow the command line
\* the variables of the terminal user interface
tvars == <<tpc, app, rx_run, runs, launches, report_json, list_run, applied>>

xvars == <<lvars, tvars>>

uvars == <<svars, kvars, mvars, xvars>>

vars == <<coordvars, dvars, fvars, uvars>>

\* No directory scan is being followed entry by entry.
NoScan ==
    /\ dir = "none"
    /\ spc = "idle"
    /\ sidx = 0
    /\ sfiles = <<>>
    /\ sret = <<>>

\* Neither a scan, nor a cache file, nor a command line is being followed.
\* No cache file is being written or read.
NoCache ==
    /\ report = "none"
    /\ cache_file = <<>>
    /\ kpc = "idle"
    /\ loaded = <<>>

\* No run of main is being followed.
NoMain ==
    /\ cli = "none"
    /\ base = "none"
    /\ subdirs = <<>>
    /\ mpc = "idle"
    /\ bi = 0
    /\ tally = "none"
    /\ analyses = <<>>
    /\ writes = <<>>
    /\ printed = <<>>
    /\ mexit = <<>>

\* No push_samples call is being followed iteration by iteration.
NoLoop ==
    /\ loop_pc = "idle"
    /\ loop_input = <<>>
    /\ loop_data = <<>>
    /\ loop_offset = 0

\* App::new on no file; no TUI is being followed.
NoApp ==
    [tracks |-> <<>>, album_result |-> <<>>, album_title |-> <<>>,
     view |-> "Main", loaded_from_cache |-> FALSE]

NoTui ==
    /\ tpc = "idle"
    /\ app = NoApp
    /\ rx_run = 0
    /\ runs = 0
    /\ launches = 0
    /\ report_json = <<>>
    /\ list_run = 0
    /\ applied = {}

NoExtra ==
    /\ NoLoop
    /\ NoTui

NoUtil ==
    /\ NoScan
    /\ NoCache
    /\ NoMain
    /\ NoExtra

\* No single-file analysis is being followed packet by packet.
NoFile ==
    /\ track = "none"
    /\ fpc = "idle"
    /\ next_pkt = 0
    /\ total_frames = 0
    /\ bytes_decoded = 0
    /\ progress = <<>>
    /\ fresult = <<>>

\* No StreamingDrState is being driven.
NoStream ==
    /\ state = "none"
    /\ pushed = <<>>
    /\ whole = TRUE
    /\ pushes = 0
    /\ out = <<>>

file_count == Cardinality(DOMAIN files)


\* ------------------------------------------------------------- result values
Ok(v)  == [ok |-> TRUE,  val |-> v]
Err(e) == [ok |-> FALSE, val |-> e]

\* TrackResult as packed at the end of analyze_file_with_progress; filename is
\* the basename of files[i], identified with i.
TrackResult(i) ==
    [dr |-> files[i].dr, filename |-> i, file_bytes |-> files[i].size]

\* The anyhow error of a failed analysis of files[i].
FileError(i, stage) == [failed |-> i, stage |-> stage]

\* No Result value yet: the function has not returned, the worker holds no
\* result of analyze_file_with_progress.
NoResult == [pending |-> TRUE]

NoAudioFiles == [failed |-> -1, stage |-> "No audio files found"]

\* -------------------------------------------------------------------- events
TrackStarted(i)      == [type |-> "TrackStarted",   index |-> i,  data |-> <<>>]
TrackProgress(i, p)  == [type |-> "TrackProgress",  index |-> i,  data |-> p]
TrackCompleted(i, r) == [type |-> "TrackCompleted", index |-> i,  data |-> <<r>>]
ErrorEvent(i, e)     == [type |-> "Error",          index |-> i,  data |-> <<e>>]
AlbumCompleted(a)    == [type |-> "AlbumCompleted", index |-> -1, data |-> <<a>>]

\* Variant of Percent: the quotient is not clamped
PercentUnclamped(decoded, file_size) == <<decoded, file_size>>

\* (bytes_decoded as f32 / file_size as f32).min(1.0), as a fraction <<n, d>>
Percent(decoded, file_size) ==
    IF decoded >= file_size THEN <<1, 1>> ELSE <<decoded, file_size>>

\* The keys events are filed under: the index of a per-track event, -1 for
\* AlbumCompleted.  The channel is FIFO, and all events of one index are sent
\* by one thread, so they are queued in the order of the calls; the order
\* between events of different indices is whatever the scheduler makes it
\* and is not recorded.
EventKeys == (-1)..MaxFiles

NoEvents == [i \in EventKeys |-> <<>>]

\* sender.send(ev) with the result ignored.  While the receiver is alive the
\* event is queued on the channel; once it is dropped send returns Err and
\* nothing is queued.  events logs every send call.
\* analyze_directory has no sender (its progress callback is |_| {}).
Send(ev) ==
    IF mode = "async"
    THEN /\ events' = [events EXCEPT ![ev.index] = Append(@, ev)]
         /\ chan' = IF rxAlive THEN [chan EXCEPT ![ev.index] = Append(@, ev)]
                    ELSE chan
    ELSE UNCHANGED <<events, chan>>

\* -------------------------------------------------------------- aggregation
\* Stable insertion of x into a sequence sorted by idx.
RECURSIVE InsertByIdx(_, _)
InsertByIdx(s, x) ==
    IF s = <<>> THEN <<x>>
    ELSE IF s[Len(s)].idx <= x.idx THEN Append(s, x)
    ELSE Append(InsertByIdx(SubSeq(s, 1, Len(s) - 1), x), s[Len(s)])

\* Variant of SortByIdx: the results are left in join order
SortByIdxOmitted(s) == s

\* indexed_results.sort_by_key(|(idx, _)| *idx): a stable sort by idx
RECURSIVE SortByIdx(_)
SortByIdx(s) ==
    IF s = <<>> THEN <<>>
    ELSE InsertByIdx(SortByIdx(SubSeq(s, 1, Len(s) - 1)), s[Len(s)])

\* Variant of FirstErr: the last Err in sequence order is the one returned
RECURSIVE FirstErrFromEnd(_)
FirstErrFromEnd(s) ==
    IF s = <<>> THEN 0
    ELSE IF ~s[Len(s)].res.ok THEN Len(s)
    ELSE FirstErrFromEnd(SubSeq(s, 1, Len(s) - 1))

\* for (_, result) in indexed_results { tracks.push(result?) }: the first Err
\* in sequence order is returned, otherwise the unwrapped tracks.
RECURSIVE FirstErr(_)
FirstErr(s) ==
    IF s = <<>> THEN 0
    ELSE IF ~s[1].res.ok THEN 1
    ELSE LET r == FirstErr(Tail(s)) IN IF r = 0 THEN 0 ELSE r + 1

Unwrap(s) == [k \in 1..Len(s) |-> s[k].res.val]

RECURSIVE SumDr(_)
SumDr(tracks) == IF tracks = <<>> THEN 0 ELSE tracks[1].dr + SumDr(Tail(tracks))

\* Variant of RoundDiv: integer division, the fraction is dropped
RoundDivTruncating(a, b) == a \div b

\* f64::round of a non-negative quotient a / b: nearest, halves away from zero
RoundDiv(a, b) == (2 * a + b) \div (2 * b)

\* Variant of OverallDr: the sum of the dr values is not divided
OverallDrSum(tracks) == SumDr(tracks)

\* overall_dr
OverallDr(tracks) ==
    IF tracks = <<>> THEN 0 ELSE RoundDiv(SumDr(tracks), Len(tracks))

\* extract_album_from_file(files.first()): None when the probe fails
ExtractAlbumFromFile(f) == IF f.open_ok THEN f.album ELSE "none"

AlbumResult(tracks) ==
    [tracks |-> tracks, overall_dr |-> OverallDr(tracks),
     album |-> ExtractAlbumFromFile(files[0])]

\* Variant of WorkerCount: a jobs value of 0 is not coerced to 1
WorkerCountUncoerced(j, n) == Min(j, n)

\* jobs.max(1).min(files.len())
WorkerCount(j, n) == Min(Max(j, 1), n)

\* ---------------------------------------------------------------------- Init
Init ==
    /\ mode \in {"sync", "async"}
    /\ files \in FileLists
    /\ jobs \in 0..MaxJobs
    /\ cpc = "scan"
    /\ ret = NoResult
    /\ next_index = 0
    /\ handles = 0
    /\ joined = 0
    /\ collected = <<>>
    /\ wpc = [w \in Workers |-> "unspawned"]
    /\ widx = [w \in Workers |-> 0]
    /\ wpos = [w \in Workers |-> 0]
    /\ wbytes = [w \in Workers |-> 0]
    /\ wres = [w \in Workers |-> NoResult]
    /\ wresults = [w \in Workers |-> <<>>]
    /\ events = NoEvents
    /\ chan = NoEvents
    /\ rxAlive = TRUE
    /\ analyzed = EmptyBag
    /\ NoStream
    /\ NoFile
    /\ NoUtil

wvars == <<wpc, widx, wpos, wbytes, wres, wresults>>
cvars == <<cpc, ret, handles, joined, collected>>
input == <<mode, files, jobs>>
evars == <<events, chan>>

\* --------------------------------------------------------------- coordinator
\* Variant of ScanEmpty: the emptiness test is missing, the function goes on
ScanEmptyProceeds ==
    /\ cpc = "scan"
    /\ file_count = 0
    /\ cpc' = "spawn"
    /\ UNCHANGED <<dvars, fvars, uvars, input, ret, next_index, handles, joined, collected, wvars,
                   evars, rxAlive, analyzed>>

\* let files = scan_audio_files(path); if files.is_empty() { bail!(..) }
ScanEmpty ==
    /\ cpc = "scan"
    /\ file_count = 0
    /\ cpc' = "done"
    /\ ret' = Err(NoAudioFiles)
    /\ UNCHANGED <<dvars, fvars, uvars, input, next_index, handles, joined, collected, wvars,
                   evars, rxAlive, analyzed>>

ScanFound ==
    /\ cpc = "scan"
    /\ file_count > 0
    /\ cpc' = "spawn"
    /\ UNCHANGED <<dvars, fvars, uvars, input, ret, next_index, handles, joined, collected, wvars,
                   evars, rxAlive, analyzed>>

\* for _ in 0..jobs.min(files.len()) { handles.push(thread::spawn(..)) }
Spawn ==
    /\ cpc = "spawn"
    /\ handles < WorkerCount(jobs, file_count)
    /\ wpc' = [wpc EXCEPT ![handles] = "fetch"]
    /\ handles' = handles + 1
    /\ UNCHANGED <<dvars, fvars, uvars, input, cpc, ret, next_index, joined, collected, widx, wpos,
                   wbytes, wres, wresults, evars, rxAlive, analyzed>>

SpawnDone ==
    /\ cpc = "spawn"
    /\ handles >= WorkerCount(jobs, file_count)
    /\ cpc' = "join"
    /\ UNCHANGED <<dvars, fvars, uvars, input, ret, next_index, handles, joined, collected, wvars,
                   evars, rxAlive, analyzed>>

\* Variant of Join: the local vector is taken without waiting for the worker
JoinWithoutWaiting ==
    /\ cpc = "join"
    /\ joined < handles
    /\ collected' = collected \o wresults[joined]
    /\ joined' = joined + 1
    /\ UNCHANGED <<dvars, fvars, uvars, input, cpc, ret, next_index, handles, wvars, evars,
                   rxAlive, analyzed>>

\* for handle in handles { ..extend(handle.join().unwrap()) }: blocks until
\* the worker of the next handle has returned its local vector.
Join ==
    /\ cpc = "join"
    /\ joined < handles
    /\ wpc[joined] = "exited"
    /\ collected' = collected \o wresults[joined]
    /\ joined' = joined + 1
    /\ UNCHANGED <<dvars, fvars, uvars, input, cpc, ret, next_index, handles, wvars, evars,
                   rxAlive, analyzed>>

\* analyze_directory after the join loop: sort by index, unwrap with ?,
\* album name, overall_dr, return.
AggregateSync ==
    /\ cpc = "join"
    /\ joined = handles
    /\ mode = "sync"
    /\ LET sorted == SortByIdx(collected)
           e == FirstErr(sorted)
       IN  ret' = IF e # 0 THEN Err(sorted[e].res.val)
                  ELSE Ok(AlbumResult(Unwrap(sorted)))
    /\ cpc' = "done"
    /\ UNCHANGED <<dvars, fvars, uvars, input, next_index, handles, joined, collected, wvars,
                   evars, rxAlive, analyzed>>

\* analyze_directory_async after the join loop: album name, overall_dr,
\* send AlbumCompleted, return Ok(()).
AggregateAsync ==
    /\ cpc = "join"
    /\ joined = handles
    /\ mode = "async"
    /\ Send(AlbumCompleted(AlbumResult(collected)))
    /\ ret' = Ok("unit")
    /\ cpc' = "done"
    /\ UNCHANGED <<dvars, fvars, uvars, input, next_index, handles, joined, collected, wvars,
                   rxAlive, analyzed>>


\* -------------------------------------------------------------------- workers
\* Variant of FetchAdd: the counter is read with load, not incremented
FetchAddLoadOnly(n) == n

\* the value fetch_add(1) leaves in the counter
FetchAdd(n) == n + 1

\* if idx >= files.len() { break; }
Exhausted(idx) == idx >= file_count

\* analyze_file_with_progress(&files[i], ..) up to its decode loop: File::open,
\* probe, track selection, decoder creation (each failure returns Err), then
\* state and counters.  These steps touch nothing another thread can see, so
\* they are taken together with the step that precedes the call.
Enter(w, i) ==
    IF files[i].open_ok
    THEN /\ wpc' = [wpc EXCEPT ![w] = "packet"]
         /\ wpos' = [wpos EXCEPT ![w] = 1]
         /\ wbytes' = [wbytes EXCEPT ![w] = 0]
         /\ UNCHANGED wres
    ELSE /\ wpc' = [wpc EXCEPT ![w] = "report"]
         /\ wres' = [wres EXCEPT ![w] = Err(FileError(i, "open"))]
         /\ UNCHANGED <<wpos, wbytes>>

\* Variant of Fetch: a worker draws an index only once the worker spawned
\* before it has left its loop
FetchAfterPredecessor(w) ==
    /\ wpc[w] = "fetch"
    /\ w > 0 => wpc[w - 1] = "exited"
    /\ next_index' = FetchAdd(next_index)
    /\ IF Exhausted(next_index)
       THEN /\ wpc' = [wpc EXCEPT ![w] = "exited"]
            /\ widx' = [widx EXCEPT ![w] = 0]
            /\ UNCHANGED <<analyzed, wpos, wbytes, wres>>
       ELSE /\ widx' = [widx EXCEPT ![w] = next_index]
            /\ analyzed' = analyzed (+) SetToBag({<<w, next_index>>})
            /\ IF mode = "async"
               THEN /\ wpc' = [wpc EXCEPT ![w] = "started"]
                    /\ UNCHANGED <<wpos, wbytes, wres>>
               ELSE Enter(w, next_index)
    /\ UNCHANGED <<dvars, fvars, uvars, input, cvars, wresults, evars, rxAlive>>

\* let idx = next_index.fetch_add(1, SeqCst); if idx >= files.len() { break }
\* analyze_directory: match analyze_file(&files[idx]) { .. }
\* analyze_directory_async: goes on to send TrackStarted
Fetch(w) ==
    /\ wpc[w] = "fetch"
    /\ next_index' = FetchAdd(next_index)
    /\ IF Exhausted(next_index)
       THEN \* break; the thread returns results, idx is gone
            /\ wpc' = [wpc EXCEPT ![w] = "exited"]
            /\ widx' = [widx EXCEPT ![w] = 0]
            /\ UNCHANGED <<analyzed, wpos, wbytes, wres>>
       ELSE /\ widx' = [widx EXCEPT ![w] = next_index]
            /\ analyzed' = analyzed (+) SetToBag({<<w, next_index>>})
            /\ IF mode = "async"
               THEN /\ wpc' = [wpc EXCEPT ![w] = "started"]
                    /\ UNCHANGED <<wpos, wbytes, wres>>
               ELSE Enter(w, next_index)
    /\ UNCHANGED <<dvars, fvars, uvars, input, cvars, wresults, evars, rxAlive>>

\* Variant of Started: the worker leaves its loop when the send fails
StartedBreakOnDisconnect(w) ==
    /\ wpc[w] = "started"
    /\ Send(TrackStarted(widx[w]))
    /\ IF rxAlive
       THEN Enter(w, widx[w])
       ELSE /\ wpc' = [wpc EXCEPT ![w] = "exited"]
            /\ UNCHANGED <<wpos, wbytes, wres>>
    /\ UNCHANGED <<dvars, fvars, uvars, input, cvars, next_index, widx, wresults, rxAlive, analyzed>>

\* let _ = sender.send(AnalysisEvent::TrackStarted { index });
\* match analyze_file_with_progress(&files[index], ..) { .. }
Started(w) ==
    /\ wpc[w] = "started"
    /\ Send(TrackStarted(widx[w]))
    /\ Enter(w, widx[w])
    /\ UNCHANGED <<dvars, fvars, uvars, input, cvars, next_index, widx, wresults, rxAlive, analyzed>>

\* One iteration of the decode loop of analyze_file_with_progress on a packet
\* that next_packet delivers.
NextPacket(w) ==
    /\ wpc[w] = "packet"
    /\ wpos[w] <= Len(files[widx[w]].pkts)
    /\ LET f == files[widx[w]]
           i == widx[w]
           pk == f.pkts[wpos[w]]
           b  == wbytes[w] + pk.bytes
       IN  IF pk.kind = "other_track"
           THEN /\ wpos' = [wpos EXCEPT ![w] = @ + 1]
                /\ UNCHANGED <<wpc, wbytes, wres, evars>>
           ELSE /\ IF f.size > 0
                   THEN Send(TrackProgress(i, Percent(b, f.size)))
                   ELSE UNCHANGED evars
                /\ IF pk.kind = "decode_fatal"
                   THEN \* return Err(e): the locals of the call are dropped
                        /\ wpc' = [wpc EXCEPT ![w] = "report"]
                        /\ wres' = [wres EXCEPT ![w] = Err(FileError(i, "decode"))]
                        /\ wpos' = [wpos EXCEPT ![w] = 0]
                        /\ wbytes' = [wbytes EXCEPT ![w] = 0]
                   ELSE \* "ok": samples pushed; "decode_error": continue
                        /\ wbytes' = [wbytes EXCEPT ![w] = b]
                        /\ wpos' = [wpos EXCEPT ![w] = @ + 1]
                        /\ UNCHANGED <<wpc, wres>>
    /\ UNCHANGED <<dvars, fvars, uvars, input, cvars, next_index, widx, wresults, rxAlive, analyzed>>

\* The iteration in which next_packet returns Err.  UnexpectedEof and
\* ResetRequired break the loop: on_progress(1.0); finalize;
\* Ok(TrackResult { .. }).  Any other error is returned.  Either way the call
\* returns and its locals are dropped.
EndOfStream(w) ==
    /\ wpc[w] = "packet"
    /\ wpos[w] > Len(files[widx[w]].pkts)
    /\ IF files[widx[w]].end \in {"eof", "reset"}
       THEN /\ Send(TrackProgress(widx[w], <<1, 1>>))
            /\ wres' = [wres EXCEPT ![w] = Ok(TrackResult(widx[w]))]
       ELSE /\ wres' = [wres EXCEPT ![w] = Err(FileError(widx[w], "next_packet"))]
            /\ UNCHANGED evars
    /\ wpc' = [wpc EXCEPT ![w] = "report"]
    /\ wpos' = [wpos EXCEPT ![w] = 0]
    /\ wbytes' = [wbytes EXCEPT ![w] = 0]
    /\ UNCHANGED <<dvars, fvars, uvars, input, cvars, next_index, widx, wresults, rxAlive, analyzed>>

\* Variant of Report: the Err arm sends nothing
ReportDropsError(w) ==
    /\ wpc[w] = "report"
    /\ IF mode = "sync"
       THEN /\ wresults' = [wresults EXCEPT ![w] =
                                Append(@, [idx |-> widx[w], res |-> wres[w]])]
            /\ UNCHANGED evars
       ELSE IF wres[w].ok
            THEN /\ Send(TrackCompleted(widx[w], wres[w].val))
                 /\ wresults' = [wresults EXCEPT ![w] = Append(@, wres[w].val)]
            ELSE UNCHANGED <<evars, wresults>>
    /\ wpc' = [wpc EXCEPT ![w] = "fetch"]
    /\ wres' = [wres EXCEPT ![w] = NoResult]
    /\ UNCHANGED <<dvars, fvars, uvars, input, cvars, next_index, widx, wpos, wbytes, rxAlive,
                   analyzed>>

\* Variant of Report: the worker leaves its loop after a failed file
ReportBreakOnError(w) ==
    /\ wpc[w] = "report"
    /\ IF mode = "sync"
       THEN /\ wresults' = [wresults EXCEPT ![w] =
                                Append(@, [idx |-> widx[w], res |-> wres[w]])]
            /\ UNCHANGED evars
       ELSE IF wres[w].ok
            THEN /\ Send(TrackCompleted(widx[w], wres[w].val))
                 /\ wresults' = [wresults EXCEPT ![w] = Append(@, wres[w].val)]
            ELSE /\ Send(ErrorEvent(widx[w], wres[w].val))
                 /\ UNCHANGED wresults
    /\ wpc' = [wpc EXCEPT ![w] = IF wres[w].ok THEN "fetch" ELSE "exited"]
    /\ wres' = [wres EXCEPT ![w] = NoResult]
    /\ UNCHANGED <<dvars, fvars, uvars, input, cvars, next_index, widx, wpos, wbytes, rxAlive,
                   analyzed>>

\* The match on the analysis result in the worker loop.
\* sync:  results.push((idx, Ok(result))) / results.push((idx, Err(e)))
\* async: send TrackCompleted and results.push(result) / send Error
\* The result is moved into the vector or the event.
Report(w) ==
    /\ wpc[w] = "report"
    /\ IF mode = "sync"
       THEN /\ wresults' = [wresults EXCEPT ![w] =
                                Append(@, [idx |-> widx[w], res |-> wres[w]])]
            /\ UNCHANGED evars
       ELSE IF wres[w].ok
            THEN /\ Send(TrackCompleted(widx[w], wres[w].val))
                 /\ wresults' = [wresults EXCEPT ![w] = Append(@, wres[w].val)]
            ELSE /\ Send(ErrorEvent(widx[w], wres[w].val))
                 /\ UNCHANGED wresults
    /\ wpc' = [wpc EXCEPT ![w] = "fetch"]
    /\ wres' = [wres EXCEPT ![w] = NoResult]
    /\ UNCHANGED <<dvars, fvars, uvars, input, cvars, next_index, widx, wpos, wbytes, rxAlive,
                   analyzed>>

\* ---------------------------------------------------------------- environment
\* The caller drops the Receiver while analyze_directory_async runs.
DropReceiver ==
    /\ mode = "async"
    /\ cpc # "done"
    /\ rxAlive
    /\ rxAlive' = FALSE
    /\ chan' = NoEvents
    /\ UNCHANGED <<dvars, fvars, uvars, input, cvars, next_index, wvars, events, analyzed>>

Next ==
    \/ ScanEmpty
    \/ ScanFound
    \/ Spawn
    \/ SpawnDone
    \/ Join
    \/ AggregateSync
    \/ AggregateAsync
    \/ \E w \in Workers : Fetch(w)
    \/ \E w \in Workers : Started(w)
    \/ \E w \in Workers : NextPacket(w)
    \/ \E w \in Workers : EndOfStream(w)
    \/ \E w \in Workers : Report(w)
    \/ DropReceiver

Spec == Init /\ [][Next]_vars

\* The steps of the coordinator thread; each of them changes cpc, handles or
\* joined.
CoordinatorStep ==
    \/ ScanEmpty
    \/ ScanFound
    \/ Spawn
    \/ SpawnDone
    \/ Join
    \/ AggregateSync
    \/ AggregateAsync

\* The steps of worker thread w; each of them changes wpc[w] or wpos[w].
WorkerStep(w) ==
    \/ Fetch(w)
    \/ Started(w)
    \/ NextPacket(w)
    \/ EndOfStream(w)
    \/ Report(w)

\* The coordinator under a fair scheduler: a thread that can take a step
\* eventually takes one.  The receiver of the channel is outside the
\* function and gets no fairness.
SpecFair ==
    /\ Init
    /\ [][Next]_vars
    /\ WF_<<cpc, handles, joined>>(CoordinatorStep)
    /\ \A w \in Workers : WF_<<wpc, wpos>>(WorkerStep(w))


TypeOK ==
    /\ cpc \in {"scan", "spawn", "join", "done"}
    /\ next_index \in 0..(MaxFiles + MaxJobs + 1)
    /\ handles \in 0..Cardinality(Workers)
    /\ joined \in 0..handles


\* ======================================================================
\* Properties of the coordinator
\* ======================================================================
Indices == DOMAIN files

\* Every spawned worker has left its loop.
AllExited ==
    /\ cpc \in {"join", "done"}
    /\ file_count > 0
    /\ \A w \in 0..(handles - 1) : wpc[w] = "exited"

\* The function has returned from a non-empty directory.
Returned(m) == mode = m /\ cpc = "done" /\ file_count > 0

\* The analysis of a file fails: open/probe/decoder failure, a decode error
\* other than DecodeError, or a next_packet error other than EOF/reset.
FileFails(f) ==
    \/ ~f.open_ok
    \/ \E k \in 1..Len(f.pkts) : f.pkts[k].kind = "decode_fatal"
    \/ f.end = "io_fatal"

Failing == {i \in Indices : FileFails(files[i])}

IsTerminal(e) == e.type \in {"TrackCompleted", "Error"}

\* The send calls made for index i, in call order.
EventsOf(i) == events[i]

\* The number of events of a type sent for index i.
Count(type, i) ==
    Cardinality({k \in 1..Len(events[i]) : events[i][k].type = type})

AnalysedBy(i) == {w \in Workers : BagIn(<<w, i>>, analyzed)}

\* C1: in both variants, for every worker count and interleaving, no index
\* outside 0..file_count-1 is ever analysed, no index is analysed twice or by
\* two workers, and once all workers have exited every index has been
\* analysed exactly once.
C1_EachIndexOnce ==
    /\ \A e \in BagToSet(analyzed) :
          /\ e[2] \in Indices
          /\ CopiesIn(e, analyzed) = 1
          /\ AnalysedBy(e[2]) = {e[1]}
    /\ AllExited => \A i \in Indices : Cardinality(AnalysedBy(i)) = 1

C1_Witness ==
    /\ AllExited
    /\ handles >= 2
    /\ file_count >= 2
    /\ AnalysedBy(0) = {1}
    /\ AnalysedBy(1) = {0}

\* C2: when analyze_directory succeeds, tracks has one entry per scanned file
\* and tracks[i] is the result of analysing files[i].
C2_SyncTracksInScanOrder ==
    (Returned("sync") /\ ret.ok) =>
        /\ Len(ret.val.tracks) = file_count
        /\ \A i \in Indices :
              /\ ret.val.tracks[i + 1].filename = i
              /\ ret.val.tracks[i + 1].dr = files[i].dr
              /\ ret.val.tracks[i + 1].file_bytes = files[i].size

C2_Witness ==
    /\ Returned("sync")
    /\ ret.ok
    /\ Len(collected) >= 2
    /\ collected[1].idx > collected[2].idx

\* C3: the AlbumResult of AlbumCompleted lists its tracks in ascending
\* original file index.
C3_AsyncTracksInScanOrder ==
    \A k \in 1..Len(events[-1]) :
        LET t == events[-1][k].data[1].tracks
        IN  \A a, b \in 1..Len(t) : a < b => t[a].filename < t[b].filename

\* C4: the events sent for an index are a prefix of TrackStarted,
\* TrackProgress*, (TrackCompleted | Error); nothing follows the terminal
\* event; once all workers have exited every index has exactly one
\* TrackStarted and exactly one terminal event.
C4_PerTrackEventOrder ==
    /\ \A i \in EventKeys \ (Indices \cup {-1}) : events[i] = <<>>
    /\ \A i \in Indices :
          LET s == EventsOf(i)
          IN  /\ \A k \in 1..Len(s) :
                    /\ s[k].index = i
                    /\ s[k].type \in {"TrackStarted", "TrackProgress",
                                      "TrackCompleted", "Error"}
                    /\ (s[k].type = "TrackStarted") <=> (k = 1)
                    /\ IsTerminal(s[k]) => k = Len(s)
              /\ (mode = "async" /\ AllExited) =>
                    /\ Len(s) >= 2
                    /\ IsTerminal(s[Len(s)])

C4_Witness ==
    /\ mode = "async"
    /\ AllExited
    /\ file_count >= 2
    /\ Len(EventsOf(0)) = 4
    /\ EventsOf(0)[2].type = "TrackProgress"
    /\ EventsOf(0)[3].type = "TrackProgress"
    /\ EventsOf(0)[4].type = "TrackCompleted"
    /\ Len(EventsOf(1)) = 3
    /\ EventsOf(1)[3].type = "Error"

\* C5: for a non-empty directory analyze_directory_async sends AlbumCompleted
\* exactly once, and from the moment it is sent every index has its terminal
\* event (which, by C4, nothing follows).
C5_AlbumCompletedOnceAndLast ==
    /\ Len(events[-1]) <= 1
    /\ \A k \in 1..Len(events[-1]) : events[-1][k].type = "AlbumCompleted"
    /\ Returned("async") => Len(events[-1]) = 1
    /\ Len(events[-1]) >= 1 =>
          \A i \in Indices :
              /\ Len(events[i]) >= 1
              /\ IsTerminal(events[i][Len(events[i])])

C5_Witness ==
    /\ Returned("async")
    /\ file_count >= 2
    /\ handles >= 2
    /\ Len(events[-1]) = 1
    /\ Count("Error", 0) = 1
    /\ Count("TrackCompleted", 1) = 1

RECURSIVE SumFileDr(_)
SumFileDr(n) == IF n = 0 THEN 0 ELSE files[n - 1].dr + SumFileDr(n - 1)

\* C6: when analyze_directory returns an album with at least one track,
\* overall_dr is the integer nearest to sum(dr) / count (a half rounds up):
\* overall_dr - 1/2 <= sum / count < overall_dr + 1/2.
C6_OverallDrIsRoundedMean ==
    (Returned("sync") /\ ret.ok) =>
        LET n == Len(ret.val.tracks)
            sum == SumFileDr(file_count)
            o == ret.val.overall_dr
        IN  /\ n = file_count
            /\ 2 * n * o - n <= 2 * sum
            /\ 2 * sum < 2 * n * o + n

C6_Witness ==
    /\ Returned("sync")
    /\ ret.ok
    /\ file_count = 2
    /\ SumFileDr(file_count) = 1
    /\ ret.val.overall_dr = 1

\* C7: if any file fails, analyze_directory returns the error of the failing
\* file with the lowest index and no AlbumResult, and it returns only after
\* every worker was joined and every index was drawn and analysed.
C7_SyncFirstErrorAfterJoin ==
    Returned("sync") =>
        /\ AllExited
        /\ joined = handles
        /\ \A i \in Indices : Cardinality(AnalysedBy(i)) = 1
        /\ {collected[k].idx : k \in 1..Len(collected)} = Indices
        /\ Len(collected) = file_count
        /\ ret.ok <=> Failing = {}
        /\ Failing # {} =>
              /\ ret.val.failed \in Failing
              /\ \A i \in Failing : ret.val.failed <= i

C7_Witness ==
    /\ Returned("sync")
    /\ ~ret.ok
    /\ Cardinality(Failing) >= 2
    /\ handles >= 2
    /\ collected[1].idx > collected[2].idx

\* C8: in analyze_directory_async a failing file i yields one Error event
\* with index i and no TrackCompleted, the worker goes on to draw the next
\* index, every other index is still started and reaches its own terminal
\* event, and the function returns Ok.
C8_Inv ==
    Returned("async") =>
        /\ ret = Ok("unit")
        /\ \A i \in Indices :
              /\ Count("TrackStarted", i) = 1
              /\ Count("Error", i) = (IF i \in Failing THEN 1 ELSE 0)
              /\ Count("TrackCompleted", i) = (IF i \in Failing THEN 0 ELSE 1)
              /\ \A k \in 1..Len(events[i]) :
                    events[i][k].type = "Error" =>
                        events[i][k].data[1].failed = i

C8_Step ==
    \A w \in Workers :
        (wpc[w] = "report" /\ wpc'[w] # "report") => wpc'[w] = "fetch"

C8_AsyncErrorIsLocal == []C8_Inv /\ [][C8_Step]_vars

C8_Witness ==
    /\ Returned("async")
    /\ handles = 1
    /\ file_count >= 2
    /\ 0 \in Failing
    /\ 1 \notin Failing
    /\ Count("TrackCompleted", 1) = 1
    /\ Count("Error", 0) = 1

\* C9: once the receiver is dropped nothing more is queued, yet no worker
\* stops early: every index is drawn, analysed to its end and reported, the
\* successful results are all collected and the function returns Ok.
C9_DroppedReceiverIsHarmless ==
    ~rxAlive =>
        /\ chan = NoEvents
        /\ Returned("async") =>
              /\ ret = Ok("unit")
              /\ AllExited
              /\ \A i \in Indices :
                    /\ Cardinality(AnalysedBy(i)) = 1
                    /\ Len(EventsOf(i)) >= 2
                    /\ IsTerminal(EventsOf(i)[Len(EventsOf(i))])
              /\ {collected[k].filename : k \in 1..Len(collected)}
                    = Indices \ Failing
              /\ Len(collected) = Cardinality(Indices \ Failing)

C9_Witness ==
    /\ ~rxAlive
    /\ Returned("async")
    /\ handles >= 2
    /\ file_count >= 2
    /\ Len(collected) >= 2

\* C10: with no audio file both variants fail with the no-audio-files error
\* before any worker is spawned, and the async variant sends no event.
C10_EmptyDirectoryFails ==
    file_count = 0 =>
        /\ cpc \in {"scan", "done"}
        /\ handles = 0
        /\ next_index = 0
        /\ analyzed = EmptyBag
        /\ events = NoEvents
        /\ chan = NoEvents
        /\ \A w \in Workers : wpc[w] = "unspawned"
        /\ cpc = "done" => ret = Err(NoAudioFiles)

C10_Witness ==
    /\ file_count = 0
    /\ mode = "async"
    /\ cpc = "done"
    /\ ~ret.ok


\* The worker threads that exist: spawned and not necessarily still running.
SpawnedWorkers == {w \in Workers : wpc[w] # "unspawned"}

\* jobs with the value 0 read as 1
EffectiveJobs == IF jobs = 0 THEN 1 ELSE jobs

\* C11: in both variants the number of worker threads spawned is
\* min(max(jobs, 1), file_count): a jobs value of 0 is coerced to 1, there are
\* never more workers than files, and once spawning is over there are exactly
\* that many, each handle standing for one spawned thread.
C11_WorkerCountClamped ==
    /\ Cardinality(SpawnedWorkers) = handles
    /\ handles <= file_count
    /\ handles <= EffectiveJobs
    /\ (cpc \in {"join", "done"} /\ file_count > 0) =>
          /\ handles >= 1
          /\ handles = file_count \/ handles = EffectiveJobs

C11_Witness ==
    /\ cpc = "join"
    /\ jobs = 0
    /\ file_count = 2
    /\ handles = 1
    /\ wpc[0] = "exited"

\* ======================================================================
\* Part 2: StreamingDrState
\* ======================================================================
\* Sample values.  A sample is an f32 holding a small integer, which f32 and
\* f64 represent exactly, as they do its square and the sums of squares that
\* occur; the arithmetic on them is integer arithmetic.  1 is full scale,
\* -2 is a sample beyond full scale.
Samples == {-2, 0, 1}

ChannelCounts == {0, 1, 2}

SampleRates == {1, 2}

\* block_frames: 3 * sample_rate
BlockSeconds == 3

Abs(v) == IF v < 0 THEN -v ELSE v

\* The reals the code obtains with sqrt and log10 are kept in closed form and
\* compared through their numerators and denominators:
\*   Root(n, d)  the non-negative real whose square is n / d    (d > 0)
\*   Db(n, d)    the real 10 * log10(n / d), -inf for n = 0     (d > 0)
Root(n, d) == [num |-> n, den |-> d]

Db(n, d) == [num |-> n, den |-> d]

\* Variant of NegInf: 0 dB
NegInfAsZeroDb == Db(1, 1)

\* -f64::INFINITY
NegInf == Db(0, 1)

\* an f64 holding the integer v >= 0
Exact(v) == Root(v * v, 1)

RootGt(a, b) == a.num * b.den > b.num * a.den

DbEq(a, b) == a.num * b.den = b.num * a.den

DbLe(a, b) == a.num * b.den <= b.num * a.den

\* if linear <= 0.0 { -inf } else { 20.0 * linear.log10() }
db_fs(linear) ==
    IF linear.num <= 0 THEN NegInf ELSE Db(linear.num, linear.den)

\* StreamingDrState::new
New(channels, sample_rate) ==
    [channels             |-> channels,
     sample_rate          |-> sample_rate,
     block_frames         |-> BlockSeconds * sample_rate,
     current_block_frames |-> 0,
     ch_sum_sq            |-> [c \in 1..channels |-> 0],
     ch_peak              |-> [c \in 1..channels |-> 0],
     block_rms            |-> [c \in 1..channels |-> <<>>],
     block_peaks          |-> [c \in 1..channels |-> <<>>],
     global_peak          |-> 0,
     residual             |-> <<>>]

\* data.iter().skip(ch).step_by(channels), ch counted from 0
ChannelSamples(data, ch, channels) ==
    LET n == IF Len(data) > ch
             THEN (Len(data) - ch + channels - 1) \div channels
             ELSE 0
    IN  [j \in 1..n |-> data[ch + 1 + (j - 1) * channels]]

\* sum_sq += v * v over a run of samples
RECURSIVE SumSq(_)
SumSq(s) == IF s = <<>> THEN 0 ELSE s[1] * s[1] + SumSq(Tail(s))

\* Variant of PeakAbs: the magnitudes are added up
RECURSIVE PeakAbsSummed(_, _)
PeakAbsSummed(peak, s) ==
    IF s = <<>> THEN peak ELSE PeakAbsSummed(peak + Abs(s[1]), Tail(s))

\* if abs_v > peak { peak = abs_v } over a run of samples
RECURSIVE PeakAbs(_, _)
PeakAbs(peak, s) ==
    IF s = <<>> THEN peak ELSE PeakAbs(Max(peak, Abs(s[1])), Tail(s))

\* Variant of Accumulate: global_peak is left alone
AccumulateChannelPeakOnly(st, chunk) ==
    [st EXCEPT
        !.ch_sum_sq = [c \in 1..st.channels |->
            st.ch_sum_sq[c] + SumSq(ChannelSamples(chunk, c - 1, st.channels))],
        !.ch_peak = [c \in 1..st.channels |->
            PeakAbs(st.ch_peak[c], ChannelSamples(chunk, c - 1, st.channels))]]

\* The accumulation loop over the channels of a chunk: ch_sum_sq, ch_peak and
\* global_peak take in every sample of the chunk.
Accumulate(st, chunk) ==
    [st EXCEPT
        !.ch_sum_sq = [c \in 1..st.channels |->
            st.ch_sum_sq[c] + SumSq(ChannelSamples(chunk, c - 1, st.channels))],
        !.ch_peak = [c \in 1..st.channels |->
            PeakAbs(st.ch_peak[c], ChannelSamples(chunk, c - 1, st.channels))],
        !.global_peak = PeakAbs(st.global_peak, chunk)]

\* (2.0 * sum_sq / block_frames).sqrt()
Rms(sum_sq, block_frames) == Root(2 * sum_sq, block_frames)

\* Variant of CloseBlock: the accumulators are not reset
CloseBlockKeepsAccumulators(st) ==
    [st EXCEPT
        !.block_rms = [c \in 1..st.channels |->
            Append(st.block_rms[c], Rms(st.ch_sum_sq[c], st.block_frames))],
        !.block_peaks = [c \in 1..st.channels |->
            Append(st.block_peaks[c], st.ch_peak[c])],
        !.current_block_frames = 0]

\* Block complete: store RMS and peak, reset accumulators.
CloseBlock(st) ==
    [st EXCEPT
        !.block_rms = [c \in 1..st.channels |->
            Append(st.block_rms[c], Rms(st.ch_sum_sq[c], st.block_frames))],
        !.block_peaks = [c \in 1..st.channels |->
            Append(st.block_peaks[c], st.ch_peak[c])],
        !.ch_sum_sq = [c \in 1..st.channels |-> 0],
        !.ch_peak = [c \in 1..st.channels |-> 0],
        !.current_block_frames = 0]

\* Variant of BlockLoop: at most one block is closed per call
BlockLoopOnce(st, data, block_size, offset) ==
    IF offset + block_size <= Len(data) + st.current_block_frames * st.channels
    THEN LET remaining_frames == st.block_frames - st.current_block_frames
             remaining_samples == remaining_frames * st.channels
             chunk == SubSeq(data, offset + 1, offset + remaining_samples)
         IN  [st |-> CloseBlock(Accumulate(st, chunk)),
              offset |-> offset + remaining_samples]
    ELSE [st |-> st, offset |-> offset]

\* The while loop of process_slice from a given offset; yields the state and
\* the offset it ends with.  block_frames > 0: each iteration closes a block.
RECURSIVE BlockLoop(_, _, _, _)
BlockLoop(st, data, block_size, offset) ==
    IF offset + block_size <= Len(data) + st.current_block_frames * st.channels
    THEN LET remaining_frames == st.block_frames - st.current_block_frames
             remaining_samples == remaining_frames * st.channels
         IN  IF offset + remaining_samples > Len(data)
             THEN [st |-> st, offset |-> offset]
             ELSE LET chunk == SubSeq(data, offset + 1, offset + remaining_samples)
                  IN  BlockLoop(CloseBlock(Accumulate(st, chunk)), data,
                                block_size, offset + remaining_samples)
    ELSE [st |-> st, offset |-> offset]

\* The part of process_slice after its while loop: the leftover samples are
\* accumulated into the block in progress, the samples after the last whole
\* frame become the residual.
LeftoverPass(st, data, offset) ==
    LET leftover == SubSeq(data, offset + 1, Len(data))
        leftover_frames == Len(leftover) \div st.channels
        acc == IF leftover # <<>>
               THEN [Accumulate(st, leftover) EXCEPT
                        !.current_block_frames = @ + leftover_frames]
               ELSE st
        consumed == offset + (Len(leftover) \div st.channels) * st.channels
    IN  [acc EXCEPT !.residual = IF consumed < Len(data)
                                 THEN SubSeq(data, consumed + 1, Len(data))
                                 ELSE <<>>]

process_slice(st, data, block_size) ==
    LET loop == BlockLoop(st, data, block_size, 0)
    IN  LeftoverPass(loop.st, data, loop.offset)

push_samples(st, interleaved) ==
    IF st.channels = 0
    THEN st
    ELSE LET block_size == st.block_frames * st.channels
             \* the residual, extended by the input unless it was empty
             extended == IF st.residual = <<>>
                         THEN <<>>
                         ELSE st.residual \o interleaved
             samples == IF st.residual = <<>> THEN interleaved ELSE <<>>
         IN  IF samples = <<>>
             THEN \* mem::take(&mut self.residual), process_slice(&data, ..)
                  process_slice([st EXCEPT !.residual = <<>>], extended,
                                block_size)
             ELSE process_slice(st, samples, block_size)

\* ---------------------------------------------------------------- reduction
RECURSIVE InsertDesc(_, _)
InsertDesc(s, x) ==
    IF s = <<>> THEN <<x>>
    ELSE IF x > s[1] THEN <<x>> \o s
    ELSE <<s[1]>> \o InsertDesc(Tail(s), x)

\* ch_peaks.sort_by(|a, b| b.partial_cmp(a)..): descending
RECURSIVE SortDesc(_)
SortDesc(s) ==
    IF s = <<>> THEN <<>> ELSE InsertDesc(SortDesc(SubSeq(s, 1, Len(s) - 1)), s[Len(s)])

RECURSIVE InsertRootDesc(_, _)
InsertRootDesc(s, x) ==
    IF s = <<>> THEN <<x>>
    ELSE IF RootGt(x, s[1]) THEN <<x>> \o s
    ELSE <<s[1]>> \o InsertRootDesc(Tail(s), x)

\* ch_rms.sort_by(|a, b| b.partial_cmp(a)..): descending
RECURSIVE SortRootDesc(_)
SortRootDesc(s) ==
    IF s = <<>> THEN <<>>
    ELSE InsertRootDesc(SortRootDesc(SubSeq(s, 1, Len(s) - 1)), s[Len(s)])

\* Variant of TopCount: the fifth of the block count is rounded down
TopCountFloor(num_blocks) == Max(num_blocks \div 5, 1)

\* ((num_blocks as f64 * 0.2).ceil() as usize).max(1); the f64 product of a
\* multiple of 5 with 0.2 rounds to the exact quotient, so the ceiling is
\* that of num_blocks / 5
TopCount(num_blocks) == Max((num_blocks + 4) \div 5, 1)

AddFrac(x, y) ==
    IF x.den = y.den
    THEN [num |-> x.num + y.num, den |-> x.den]
    ELSE [num |-> x.num * y.den + y.num * x.den, den |-> x.den * y.den]

\* ch_rms.iter().take(top_count).map(|v| v * v).sum(), as a fraction
RECURSIVE SumOfSquares(_, _)
SumOfSquares(s, k) ==
    IF k = 0 \/ s = <<>> THEN [num |-> 0, den |-> 1]
    ELSE IF k = 1 \/ Len(s) = 1 THEN s[1]
    ELSE AddFrac(s[1], SumOfSquares(Tail(s), k - 1))

\* Variant of RepresentativePeak: the highest block peak
RepresentativePeakHighest(ch_peaks) == ch_peaks[1]

\* if ch_peaks.len() >= 2 { ch_peaks[1] } else { ch_peaks[0] } on the peaks
\* sorted in descending order
RepresentativePeak(ch_peaks) ==
    IF Len(ch_peaks) >= 2 THEN ch_peaks[2] ELSE ch_peaks[1]

\* The body of the per-channel loop of finalize (and of compute_dr, which
\* repeats it): combined RMS of the loudest blocks, representative peak,
\* channel DR.
ChannelReduce(block_rms_ch, block_peaks_ch, num_blocks) ==
    LET ch_rms == SortRootDesc(block_rms_ch)
        top_count == TopCount(num_blocks)
        sum_sq == SumOfSquares(ch_rms, top_count)
        combined_rms == Root(sum_sq.num, sum_sq.den * top_count)
        ch_peaks == SortDesc(block_peaks_ch)
        peak == RepresentativePeak(ch_peaks)
    IN  [combined_rms |-> combined_rms,
         peak |-> peak,
         \* 20.0 * (peak / combined_rms).log10(), else 0.0
         channel_dr |-> IF peak > 0 /\ combined_rms.num > 0
                        THEN Db(peak * peak * combined_rms.den, combined_rms.num)
                        ELSE Db(1, 1)]

\* if combined_rms > report_rms { report_rms = combined_rms } over the channels
RECURSIVE ReportRms(_, _)
ReportRms(report_rms, reduced) ==
    IF reduced = <<>> THEN report_rms
    ELSE ReportRms(IF RootGt(reduced[1].combined_rms, report_rms)
                   THEN reduced[1].combined_rms ELSE report_rms,
                   Tail(reduced))

\* 10^(k/20) for k = 0..60 as <<a, b>>, standing for (a * 10^4 + b) / 10^8,
\* rounded up in the last place.
Pow10 ==
    << <<10000, 0>>, <<11220, 1846>>, <<12589, 2542>>, <<14125, 3755>>,
       <<15848, 9320>>, <<17782, 7942>>, <<19952, 6232>>, <<22387, 2114>>,
       <<25118, 8644>>, <<28183, 8294>>, <<31622, 7767>>, <<35481, 3390>>,
       <<39810, 7171>>, <<44668, 3593>>, <<50118, 7234>>, <<56234, 1326>>,
       <<63095, 7345>>, <<70794, 5785>>, <<79432, 8235>>, <<89125, 939>>,
       <<100000, 0>>, <<112201, 8455>>, <<125892, 5412>>, <<141253, 7545>>,
       <<158489, 3193>>, <<177827, 9411>>, <<199526, 2315>>, <<223872, 1139>>,
       <<251188, 6432>>, <<281838, 2932>>, <<316227, 7661>>, <<354813, 3893>>,
       <<398107, 1706>>, <<446683, 5922>>, <<501187, 2337>>, <<562341, 3252>>,
       <<630957, 3445>>, <<707945, 7844>>, <<794328, 2348>>, <<891250, 9382>>,
       <<1000000, 0>>, <<1122018, 4544>>, <<1258925, 4118>>, <<1412537, 5447>>,
       <<1584893, 1925>>, <<1778279, 4101>>, <<1995262, 3150>>, <<2238721, 1386>>,
       <<2511886, 4316>>, <<2818382, 9313>>, <<3162277, 6602>>, <<3548133, 8924>>,
       <<3981071, 7056>>, <<4466835, 9216>>, <<5011872, 3363>>, <<5623413, 2520>>,
       <<6309573, 4449>>, <<7079457, 8439>>, <<7943282, 3473>>, <<8912509, 3814>>,
       <<10000000, 0>> >>

\* a / b >= 10^(k/20), by long division of a / b to eight decimal places
AtLeastPow10(a, b, k) ==
    LET q1 == (a * 10000) \div b
        r1 == (a * 10000) % b
        q2 == (r1 * 10000) \div b
        t  == Pow10[k + 1]
    IN  q1 > t[1] \/ (q1 = t[1] /\ q2 >= t[2])

RECURSIVE ProdNum(_)
ProdNum(drs) == IF drs = <<>> THEN 1 ELSE drs[1].num * ProdNum(Tail(drs))

RECURSIVE ProdDen(_)
ProdDen(drs) == IF drs = <<>> THEN 1 ELSE drs[1].den * ProdDen(Tail(drs))

\* The largest n >= from with (10 / c) * log10(a / b) >= n - 1/2, where
\* a >= b: the magnitude of the mean of c decibel values whose ratios have
\* the product a / b, rounded half away from zero.
RECURSIVE Magnitude(_, _, _, _)
Magnitude(a, b, c, from) ==
    IF /\ c * (2 * from + 1) + 1 <= Len(Pow10)
       /\ AtLeastPow10(a, b, c * (2 * from + 1))
    THEN Magnitude(a, b, c, from + 1)
    ELSE from

\* (channel_drs.iter().sum::<f64>() / channel_drs.len() as f64).round():
\* the sum of the logarithms is the logarithm of the product.
RoundMean(channel_drs) ==
    LET a == ProdNum(channel_drs)
        b == ProdDen(channel_drs)
        c == Len(channel_drs)
    IN  IF a >= b THEN Magnitude(a, b, c, 0) ELSE 0 - Magnitude(b, a, c, 0)

\* Variant of AsU32: the value is reinterpreted unchanged
AsU32Unclamped(x) == x

\* x as u32 for a rounded f64: a negative value saturates to 0
AsU32(x) == IF x < 0 THEN 0 ELSE x

\* Variant of EarlyReturn: the peak of a track without a full block is dropped
EarlyReturnWithoutPeak(st, duration_secs) ==
    [dr |-> 0, peak_db |-> NegInf, rms_db |-> NegInf,
     duration_secs |-> duration_secs]

\* return (0, db_fs(self.global_peak), -f64::INFINITY, duration_secs)
EarlyReturn(st, duration_secs) ==
    [dr |-> 0, peak_db |-> db_fs(Exact(st.global_peak)), rms_db |-> NegInf,
     duration_secs |-> duration_secs]

\* finalize(self, total_frames) -> (dr, peak_db, rms_db, duration_secs);
\* duration_secs is the fraction <<total_frames, sample_rate>>.
finalize(st, frames) ==
    LET channels == st.channels
        \* total_frames as f64 / self.sample_rate as f64
        duration_secs == <<frames, st.sample_rate>>
        num_blocks == IF channels > 0 THEN Len(st.block_rms[1]) ELSE 0
    IN  IF num_blocks = 0 \/ channels = 0
        THEN EarlyReturn(st, duration_secs)
        ELSE LET reduced == [c \in 1..channels |->
                     ChannelReduce(st.block_rms[c], st.block_peaks[c], num_blocks)]
                 channel_drs == [c \in 1..channels |-> reduced[c].channel_dr]
                 report_rms == ReportRms(Exact(0), reduced)
             IN  [dr |-> IF channel_drs = <<>> THEN 0
                         ELSE AsU32(RoundMean(channel_drs)),
                  peak_db |-> db_fs(Exact(st.global_peak)),
                  rms_db |-> db_fs(report_rms),
                  duration_secs |-> duration_secs]

\* ------------------------------------------------------------ batch reference
\* compute_block_stats(samples, channels): per-channel DR-RMS and peak of one
\* block of interleaved samples
compute_block_stats(samples, channels) ==
    LET frames == Len(samples) \div channels
    IN  [rms  |-> [c \in 1..channels |->
                     Rms(SumSq(ChannelSamples(samples, c - 1, channels)), frames)],
         peak |-> [c \in 1..channels |->
                     PeakAbs(0, ChannelSamples(samples, c - 1, channels))]]

\* all_samples.chunks_exact(block_size)
ChunksExact(all_samples, block_size) ==
    [k \in 1..(Len(all_samples) \div block_size) |->
        SubSeq(all_samples, (k - 1) * block_size + 1, k * block_size)]

\* compute_dr(all_samples, channels, sample_rate) -> (dr, peak_db, rms_db)
compute_dr(all_samples, channels, sample_rate) ==
    LET block_frames == BlockSeconds * sample_rate
        block_size == block_frames * channels
        absolute_peak == PeakAbs(0, all_samples)
    IN  IF Len(all_samples) < block_size \/ channels = 0
        THEN [dr |-> 0, peak_db |-> db_fs(Exact(absolute_peak)), rms_db |-> NegInf]
        ELSE LET chunks == ChunksExact(all_samples, block_size)
                 blocks == [k \in 1..Len(chunks) |->
                               compute_block_stats(chunks[k], channels)]
                 num_blocks == Len(blocks)
                 reduced == [c \in 1..channels |->
                     ChannelReduce([k \in 1..num_blocks |-> blocks[k].rms[c]],
                                   [k \in 1..num_blocks |-> blocks[k].peak[c]],
                                   num_blocks)]
                 channel_drs == [c \in 1..channels |-> reduced[c].channel_dr]
                 report_rms == ReportRms(Exact(0), reduced)
             IN  [dr |-> IF channel_drs = <<>> THEN 0
                         ELSE AsU32(RoundMean(channel_drs)),
                  peak_db |-> db_fs(Exact(absolute_peak)),
                  rms_db |-> db_fs(report_rms)]

\* ------------------------------------------------------------------- caller
\* The coordinator is not running.
NoCoordinator ==
    /\ mode = "none"
    /\ files = <<>>
    /\ jobs = 0
    /\ cpc = "idle"
    /\ ret = NoResult
    /\ next_index = 0
    /\ handles = 0
    /\ joined = 0
    /\ collected = <<>>
    /\ wpc = [w \in Workers |-> "unspawned"]
    /\ widx = [w \in Workers |-> 0]
    /\ wpos = [w \in Workers |-> 0]
    /\ wbytes = [w \in Workers |-> 0]
    /\ wres = [w \in Workers |-> NoResult]
    /\ wresults = [w \in Workers |-> <<>>]
    /\ events = NoEvents
    /\ chan = NoEvents
    /\ rxAlive = TRUE
    /\ analyzed = EmptyBag

\* let mut state = StreamingDrState::new(channels, sample_rate)
InitStream ==
    /\ NoCoordinator
    /\ NoFile
    /\ NoUtil
    /\ \E channels \in ChannelCounts, sample_rate \in SampleRates :
          state = New(channels, sample_rate)
    /\ pushed = <<>>
    /\ whole = TRUE
    /\ pushes = 0
    /\ out = <<>>

\* The slices a caller can still push.
Slices == UNION {[1..n -> Samples] : n \in 0..(MaxSamples - Len(pushed))}

\* A slice of whole interleaved frames of the state's channel count.
WholeFrames(slice) ==
    IF state.channels = 0 THEN slice = <<>> ELSE Len(slice) % state.channels = 0

\* state.push_samples(slice)
Push ==
    /\ out = <<>>
    /\ pushes < MaxPushes
    /\ pushes' = pushes + 1
    /\ \E slice \in Slices :
          /\ state' = push_samples(state, slice)
          /\ pushed' = pushed \o slice
          /\ whole' = (whole /\ WholeFrames(slice))
    /\ UNCHANGED <<coordvars, uvars, fvars, out>>

\* The frame count a caller adds up for the samples it pushed.
FramesPushed == Len(pushed) \div Max(state.channels, 1)

\* state.finalize(total_frames); self is consumed, its last value is kept
Finalize ==
    /\ out = <<>>
    /\ out' = <<finalize(state, FramesPushed)>>
    /\ UNCHANGED <<coordvars, uvars, fvars, state, pushed, whole, pushes>>

NextStream ==
    \/ Push
    \/ Finalize

SpecStream == InitStream /\ [][NextStream]_vars

\* ======================================================================
\* Properties of StreamingDrState
\* ======================================================================
\* compute_dr on the concatenation of everything pushed
Reference == compute_dr(pushed, state.channels, state.sample_rate)

\* The BlockStats compute_dr gathers from the concatenation (channels > 0).
ReferenceBlocks ==
    LET chunks == ChunksExact(pushed, state.block_frames * state.channels)
    IN  [k \in 1..Len(chunks) |-> compute_block_stats(chunks[k], state.channels)]

\* C12: for any split of a whole-frame interleaved stream into whole-frame
\* chunks, empty chunks and chunks spanning several blocks included, pushing
\* the chunks one by one and finalizing yields the same per-channel block
\* sums of squares (as block RMS), block peaks, global peak and final
\* (dr, peak_db, rms_db) as compute_dr on the concatenation.
C12_StreamingEqualsBatch ==
    whole =>
      /\ state.channels > 0 =>
            /\ \A c \in 1..state.channels :
                  /\ Len(state.block_rms[c]) = Len(ReferenceBlocks)
                  /\ Len(state.block_peaks[c]) = Len(ReferenceBlocks)
                  /\ \A k \in 1..Len(ReferenceBlocks) :
                        /\ state.block_rms[c][k] = ReferenceBlocks[k].rms[c]
                        /\ state.block_peaks[c][k] = ReferenceBlocks[k].peak[c]
            /\ state.global_peak = PeakAbs(0, pushed)
      /\ out # <<>> =>
            /\ out[1].dr = Reference.dr
            /\ DbEq(out[1].peak_db, Reference.peak_db)
            /\ DbEq(out[1].rms_db, Reference.rms_db)

C12_Witness ==
    /\ whole
    /\ pushes = 2
    /\ state.channels = 1
    /\ Len(state.block_rms[1]) = 2
    /\ state.block_peaks[1] = <<2, 1>>
    /\ out # <<>>
    /\ out[1].rms_db # NegInf

\* finalize has returned.
Finalized == out # <<>>

\* The number of completed blocks, as finalize reads it.
NumBlocks == IF state.channels > 0 THEN Len(state.block_rms[1]) ELSE 0

\* The largest magnitude among the samples pushed, 0 if there are none.
MaxAbs ==
    LET mags == {Abs(pushed[k]) : k \in 1..Len(pushed)} \cup {0}
    IN  CHOOSE m \in mags : \A x \in mags : x <= m

\* C13: finalize on a state with no completed block, or with channels = 0,
\* returns dr = 0, rms_db = -inf, peak_db = db_fs(global_peak) and
\* duration = total_frames / sample_rate.
C13_NoBlockResult ==
    (Finalized /\ (state.channels = 0 \/ NumBlocks = 0)) =>
        /\ out[1].dr = 0
        /\ out[1].rms_db.num = 0
        /\ IF state.global_peak = 0
           THEN out[1].peak_db.num = 0
           ELSE DbEq(out[1].peak_db, Db(state.global_peak * state.global_peak, 1))
        /\ out[1].duration_secs =
              <<Len(pushed) \div Max(state.channels, 1), state.sample_rate>>

C13_Witness ==
    /\ Finalized
    /\ state.channels = 1
    /\ state.sample_rate = 2
    /\ NumBlocks = 0
    /\ state.global_peak = 2
    /\ out[1].duration_secs = <<3, 2>>

\* C14: an input whose samples are all zero, of any length and channel count,
\* gives dr = 0, peak_db = -inf and rms_db = -inf.
C14_SilenceResult ==
    (Finalized /\ \A k \in 1..Len(pushed) : pushed[k] = 0) =>
        /\ out[1].dr = 0
        /\ out[1].peak_db.num = 0
        /\ out[1].rms_db.num = 0

C14_Witness ==
    /\ Finalized
    /\ Len(pushed) = 6
    /\ \A k \in 1..Len(pushed) : pushed[k] = 0
    /\ state.channels = 1
    /\ NumBlocks = 2

\* The channel DR values finalize averages (one completed block at least).
ChannelDrs ==
    [c \in 1..state.channels |->
        ChannelReduce(state.block_rms[c], state.block_peaks[c], NumBlocks).channel_dr]

\* C15 as stated: with one completed block or more, dr is the rounded mean
\* over the channels of channel_dr[c], whatever the sign of the mean.
C15_DrIsRoundedMean ==
    (Finalized /\ NumBlocks >= 1) => out[1].dr = RoundMean(ChannelDrs)

\* C15, amended: with one completed block or more, dr is the rounded mean
\* over the channels of channel_dr[c] when that is not negative, and 0 when
\* it is negative.
C15_DrIsRoundedMeanOrZero ==
    (Finalized /\ NumBlocks >= 1) =>
        /\ RoundMean(ChannelDrs) >= 0 => out[1].dr = RoundMean(ChannelDrs)
        /\ RoundMean(ChannelDrs) < 0 => out[1].dr = 0

C15_Witness ==
    /\ Finalized
    /\ state.channels = 2
    /\ NumBlocks = 1
    /\ RoundMean(ChannelDrs) < 0
    /\ out[1].dr = 0

\* C16: peak_db is db_fs of the largest magnitude among all samples pushed,
\* in every channel, those of a final partial block included; it is not the
\* second-highest block peak.
C16_PeakIsGlobal ==
    (Finalized /\ state.channels > 0) =>
        IF MaxAbs = 0
        THEN out[1].peak_db.num = 0
        ELSE DbEq(out[1].peak_db, Db(MaxAbs * MaxAbs, 1))

C16_Witness ==
    /\ Finalized
    /\ state.channels = 1
    /\ state.block_peaks[1] = <<1>>
    /\ state.current_block_frames > 0
    /\ MaxAbs = 2
    /\ DbEq(out[1].peak_db, Db(4, 1))

\* C17: when every sample pushed lies in [-1, 1], peak_db <= 0.
C17_PeakAtMostFullScale ==
    (Finalized /\ \A k \in 1..Len(pushed) : Abs(pushed[k]) <= 1) =>
        DbLe(out[1].peak_db, Db(1, 1))

C17_Witness ==
    /\ Finalized
    /\ state.channels = 2
    /\ Len(pushed) = 6
    /\ \A k \in 1..Len(pushed) : pushed[k] = 1
    /\ DbEq(out[1].peak_db, Db(1, 1))

\* C18: push_samples on a state with channels = 0, and push_samples with an
\* empty input on any state, leaves every field of the state unchanged.
C18_PushIsNoOp ==
    [][(pushes' = pushes + 1 /\ (state.channels = 0 \/ pushed' = pushed))
          => state' = state]_vars

\* ======================================================================
\* Part 3: the decode loop of a single-file analysis
\* ======================================================================
\* A packet as the loop meets it: kind as for Packet, bytes is
\* packet.data.len(), samples is the interleaved buffer a successful decode
\* yields (empty for the other kinds).
StreamPacket(kind, bytes, samples) ==
    [kind |-> kind, bytes |-> bytes, samples |-> samples]

\* Decoded buffers of one frame and of three frames (a block at sample rate 1)
DecodedBuffers(channels) ==
    {[k \in 1..(n * channels) |-> v] : n \in {1, 3}, v \in {-2, 1}}

PacketsOf(channels) ==
    {StreamPacket("ok", 2, b) : b \in DecodedBuffers(channels)}
    \cup {StreamPacket(k, 2, <<>>) :
             k \in {"other_track", "decode_error", "decode_fatal"}}

\* The source of one analysis once it is probed and its decoder exists:
\* source "file" (analyze_file_with_progress, file_size from the metadata, 0 if
\* unknown) or "stdin" (analyze_stdin); channels and sample_rate from the
\* codec parameters; the packets next_packet delivers, and the error it
\* returns after them ("eof", "reset" or "io_fatal").
Track(source, file_size, channels, sample_rate, pkts, end) ==
    [source |-> source, file_size |-> file_size, channels |-> channels,
     sample_rate |-> sample_rate, pkts |-> pkts, end |-> end]

Tracks ==
    UNION {
      UNION {
        {Track(src[1], src[2], channels, 1, pkts, end) :
            src \in {<<"file", 0>>, <<"file", 3>>, <<"stdin", 0>>},
            pkts \in [1..n -> PacketsOf(channels)],
            end \in {"eof", "reset", "io_fatal"}}
        : n \in 0..MaxPackets}
      : channels \in {1, 2}}

\* TrackResult { dr, peak_db, rms_db, duration_secs, title, filename,
\* file_bytes }; title and filename are those of the source.
PackTrackResult(fin, file_bytes) ==
    [dr |-> fin.dr, peak_db |-> fin.peak_db, rms_db |-> fin.rms_db,
     duration_secs |-> fin.duration_secs, file_bytes |-> file_bytes]

\* The state on entry to the loop: state, bytes_decoded, total_frames.
InitFile ==
    /\ NoCoordinator
    /\ NoUtil
    /\ track \in Tracks
    /\ state = New(track.channels, track.sample_rate)
    /\ pushed = <<>>
    /\ whole = TRUE
    /\ pushes = 0
    /\ out = <<>>
    /\ fpc = "loop"
    /\ next_pkt = 1
    /\ total_frames = 0
    /\ bytes_decoded = 0
    /\ progress = <<>>
    /\ fresult = <<>>

\* next_packet returns Ok(packet)
Delivered == fpc = "loop" /\ next_pkt <= Len(track.pkts)

\* next_packet returns Err
Ended == fpc = "loop" /\ next_pkt > Len(track.pkts)

\* analyze_file_with_progress: bytes_decoded += packet.data.len();
\* if file_size > 0 { on_progress((bytes_decoded / file_size).min(1.0)) }
\* analyze_stdin has neither.
CountBytes(pk) ==
    IF track.source = "file"
    THEN /\ bytes_decoded' = bytes_decoded + pk.bytes
         /\ progress' = IF track.file_size > 0
                        THEN Append(progress,
                                    Percent(bytes_decoded + pk.bytes, track.file_size))
                        ELSE progress
    ELSE UNCHANGED <<bytes_decoded, progress>>

\* if packet.track_id() != track_id { continue; }
FileSkipTrack ==
    /\ Delivered
    /\ track.pkts[next_pkt].kind = "other_track"
    /\ next_pkt' = next_pkt + 1
    /\ UNCHANGED <<coordvars, uvars, dvars, track, fpc, total_frames, bytes_decoded,
                   progress, fresult>>

\* decode returns Ok(d): total_frames += num_frames; copy_interleaved_ref;
\* state.push_samples(buf.samples())
FileDecoded ==
    /\ Delivered
    /\ track.pkts[next_pkt].kind = "ok"
    /\ LET pk == track.pkts[next_pkt]
           num_frames == Len(pk.samples) \div track.channels
       IN  /\ CountBytes(pk)
           /\ total_frames' = total_frames + num_frames
           /\ state' = push_samples(state, pk.samples)
           /\ pushed' = pushed \o pk.samples
           /\ whole' = (whole /\ WholeFrames(pk.samples))
           /\ pushes' = pushes + 1
    /\ next_pkt' = next_pkt + 1
    /\ UNCHANGED <<coordvars, uvars, out, track, fpc, fresult>>

\* Variant of FileDecodeError: the error is returned like any other
FileDecodeErrorReturned ==
    /\ Delivered
    /\ track.pkts[next_pkt].kind = "decode_error"
    /\ CountBytes(track.pkts[next_pkt])
    /\ fresult' = <<Err("decode")>>
    /\ fpc' = "done"
    /\ UNCHANGED <<coordvars, uvars, dvars, track, next_pkt, total_frames>>

\* Err(Error::DecodeError(_)) => continue
FileDecodeError ==
    /\ Delivered
    /\ track.pkts[next_pkt].kind = "decode_error"
    /\ CountBytes(track.pkts[next_pkt])
    /\ next_pkt' = next_pkt + 1
    /\ UNCHANGED <<coordvars, uvars, dvars, track, fpc, total_frames, fresult>>

\* decode returns another error: Err(e) => return Err(e.into())
FileDecodeFailed ==
    /\ Delivered
    /\ track.pkts[next_pkt].kind = "decode_fatal"
    /\ CountBytes(track.pkts[next_pkt])
    /\ fresult' = <<Err("decode")>>
    /\ fpc' = "done"
    /\ UNCHANGED <<coordvars, uvars, dvars, track, next_pkt, total_frames>>

\* What follows the loop: on_progress(1.0) (analyze_file_with_progress only),
\* state.finalize(total_frames), Ok(TrackResult { .. }).
ReturnTrackResult ==
    LET fin == finalize(state, total_frames)
    IN  /\ progress' = IF track.source = "file"
                       THEN Append(progress, <<1, 1>>)
                       ELSE progress
        /\ out' = <<fin>>
        /\ fresult' = <<Ok(PackTrackResult(fin, track.file_size))>>

\* Variant of FileStreamEnd: ResetRequired is returned like any other error
FileStreamEndOnEofOnly ==
    /\ Ended
    /\ track.end \in {"eof", "reset"}
    /\ IF track.end = "eof"
       THEN ReturnTrackResult
       ELSE /\ fresult' = <<Err("next_packet")>>
            /\ UNCHANGED <<progress, out>>
    /\ fpc' = "done"
    /\ UNCHANGED <<coordvars, uvars, state, pushed, whole, pushes, track, next_pkt,
                   total_frames, bytes_decoded>>

\* next_packet returns IoError of kind UnexpectedEof, or ResetRequired: break
FileStreamEnd ==
    /\ Ended
    /\ track.end \in {"eof", "reset"}
    /\ ReturnTrackResult
    /\ fpc' = "done"
    /\ UNCHANGED <<coordvars, uvars, state, pushed, whole, pushes, track, next_pkt,
                   total_frames, bytes_decoded>>

\* next_packet returns another error: Err(e) => return Err(e.into())
FileStreamFailed ==
    /\ Ended
    /\ track.end = "io_fatal"
    /\ fresult' = <<Err("next_packet")>>
    /\ fpc' = "done"
    /\ UNCHANGED <<coordvars, uvars, dvars, track, next_pkt, total_frames,
                   bytes_decoded, progress>>

NextFile ==
    \/ FileSkipTrack
    \/ FileDecoded
    \/ FileDecodeError
    \/ FileDecodeFailed
    \/ FileStreamEnd
    \/ FileStreamFailed

SpecFile == InitFile /\ [][NextFile]_vars

\* ======================================================================
\* Properties of the decode loop
\* ======================================================================
\* The frames of the successfully decoded packets of the selected track among
\* the first n packets.
RECURSIVE DecodedFrames(_)
DecodedFrames(n) ==
    IF n = 0 THEN 0
    ELSE DecodedFrames(n - 1) +
         (IF track.pkts[n].kind = "ok"
          THEN Len(track.pkts[n].samples) \div track.channels
          ELSE 0)

\* The packets the loop has gone through.
Consumed == IF fpc = "loop" THEN next_pkt - 1 ELSE Min(next_pkt, Len(track.pkts))

\* A packet whose decode error is not DecodeError lies in the stream.
HasFatalPacket == \E k \in 1..Len(track.pkts) : track.pkts[k].kind = "decode_fatal"

HasDecodeError == \E k \in 1..Len(track.pkts) : track.pkts[k].kind = "decode_error"

C19_Inv ==
    /\ total_frames = DecodedFrames(Consumed)
    /\ (fpc = "done" /\ ~HasFatalPacket /\ track.end \in {"eof", "reset"}) =>
          /\ fresult[1].ok
          /\ fresult[1].val.duration_secs =
                <<DecodedFrames(Len(track.pkts)), track.sample_rate>>

C19_Step ==
    (Delivered /\ track.pkts[next_pkt].kind = "decode_error") =>
        /\ state' = state
        /\ total_frames' = total_frames
        /\ fpc' = "loop"
        /\ next_pkt' = next_pkt + 1
        /\ fresult' = <<>>

\* C19: a packet whose decode reports DecodeError is skipped: the DR state and
\* total_frames are left unchanged by it, the loop goes on to the next packet
\* and the file still ends with a successful TrackResult; total_frames, and
\* with it the duration, counts only the frames of the successfully decoded
\* packets of the selected track.
C19_DecodeErrorSkipped == []C19_Inv /\ [][C19_Step]_vars

C19_Witness ==
    /\ fpc = "done"
    /\ Len(track.pkts) = 2
    /\ track.pkts[1].kind = "decode_error"
    /\ track.pkts[2].kind = "ok"
    /\ total_frames = 3
    /\ fresult[1].ok
    /\ fresult[1].val.duration_secs = <<3, 1>>

\* C20: an unexpected-EOF I/O error or ResetRequired from next_packet ends
\* the stream normally: what was accumulated is finalized and a TrackResult is
\* returned; any other error from next_packet or from decode makes the
\* analysis fail with that error, and no TrackResult is returned.
C20_StreamEndAndFailure ==
    /\ fpc = "loop" => fresult = <<>>
    /\ fpc = "done" =>
          /\ Len(fresult) = 1
          /\ (~HasFatalPacket /\ track.end \in {"eof", "reset"}) =>
                /\ fresult[1].ok
                /\ fresult[1].val =
                      PackTrackResult(finalize(state, DecodedFrames(Len(track.pkts))),
                                      track.file_size)
          /\ HasFatalPacket =>
                /\ ~fresult[1].ok
                /\ fresult[1].val = "decode"
                /\ out = <<>>
          /\ (~HasFatalPacket /\ track.end = "io_fatal") =>
                /\ ~fresult[1].ok
                /\ fresult[1].val = "next_packet"
                /\ out = <<>>

C20_Witness ==
    /\ fpc = "done"
    /\ track.end = "reset"
    /\ track.source = "stdin"
    /\ total_frames = 4
    /\ fresult[1].ok
    /\ fresult[1].val.dr = 0

\* ======================================================================
\* Properties of progress reporting and of the block records
\* ======================================================================
\* A fraction <<n, d>> that lies in [0, 1].
InUnitInterval(p) == p[2] > 0 /\ 0 <= p[1] /\ p[1] <= p[2]

\* C21: every percent value passed to the progress callback lies in [0, 1],
\* for any sequence of packet sizes and any file size, byte totals beyond the
\* file size included.
C21_PercentInUnitInterval ==
    \A k \in 1..Len(progress) : InUnitInterval(progress[k])

C21_Witness ==
    /\ fpc = "loop"
    /\ track.file_size = 3
    /\ bytes_decoded = 4
    /\ progress = << <<2, 3>>, <<1, 1>> >>

\* C22: a progress percent is produced only when the total size of the source
\* is known: analyze_stdin never reports progress, and
\* analyze_file_with_progress calls the progress callback only when
\* file_size > 0.
C22_ProgressOnlyWithKnownSize ==
    progress # <<>> => (track.source = "file" /\ track.file_size > 0)

\* C29: after any sequence of push_samples calls with whole-frame inputs
\* totalling F frames, every channel holds floor(F / block_frames) block-RMS
\* records and as many block-peak records.
C29_BlockRecordCount ==
    (whole /\ state.channels > 0) =>
        LET F == Len(pushed) \div state.channels
            n == F \div (BlockSeconds * state.sample_rate)
        IN  \A c \in 1..state.channels :
               /\ Len(state.block_rms[c]) = n
               /\ Len(state.block_peaks[c]) = n

C29_Witness ==
    /\ whole
    /\ pushes = 1
    /\ state.channels = 1
    /\ state.sample_rate = 1
    /\ Len(pushed) = 6
    /\ Len(state.block_rms[1]) = 2
    /\ out = <<>>

\* C30: when a push_samples input ends inside an interleaved frame, the
\* trailing (length mod channels) samples are kept in the residual buffer and
\* prepended to the next input, and the block statistics, accumulators and
\* global peak obtained afterwards equal those obtained by pushing the same
\* samples in whole-frame calls.
C30_ResidualEquivalence ==
    state.channels > 0 =>
        /\ state.residual =
              SubSeq(pushed, Len(pushed) - (Len(pushed) % state.channels) + 1,
                     Len(pushed))
        /\ Len(pushed) % state.channels = 0 =>
              state = push_samples(New(state.channels, state.sample_rate), pushed)

\* =========================================================================
\* Part 4: scan_audio_files on one directory.
\* =========================================================================
MaxEntries == 2      \* entries read_dir yields for one directory: 0..MaxEntries

\* A file name is the sequence of its bytes.  All entries of one directory
\* share the directory path as prefix and path.join(name) adds one component,
\* so a path is identified with its file name and the order of PathBuf with
\* the bytewise order of the names.
\*   46 '.'   51 '3'  52 '4'   65..90 'A'..'Z'   97..122 'a'..'z'
AUDIO_EXTENSIONS ==
    { <<102, 108, 97, 99>>,       \* flac
      <<109, 112, 51>>,           \* mp3
      <<119, 97, 118>>,           \* wav
      <<111, 103, 103>>,          \* ogg
      <<109, 52, 97>>,            \* m4a
      <<111, 112, 117, 115>>,     \* opus
      <<119, 118>>,               \* wv
      <<97, 105, 102>>,           \* aif
      <<97, 105, 102, 102>> }     \* aiff

\* str::to_lowercase on the bytes the model uses (ASCII).
ToLowercaseIdentity(ext) == ext
to_lowercase(ext) ==
    [i \in 1..Len(ext) |->
        IF ext[i] >= 65 /\ ext[i] <= 90 THEN ext[i] + 32 ELSE ext[i]]

\* The position of the last '.' of the name, 0 when it has none.
RECURSIVE LastDot(_, _)
LastDot(name, i) ==
    IF i = 0 THEN 0
    ELSE IF name[i] = 46 THEN i
    ELSE LastDot(name, i - 1)

\* path.extension(): <<the bytes after the last '.'>>, or <<>> (None) when the
\* name has no '.' or its only '.' is the first byte.
extension(name) ==
    LET d == LastDot(name, Len(name))
    IN  IF d <= 1 THEN <<>> ELSE <<SubSeq(name, d + 1, Len(name))>>

\* fn is_audio_file(path: &Path) -> bool
is_audio_file(name) ==
    LET ext == extension(name)
    IN  IF ext = <<>> THEN FALSE
        ELSE to_lowercase(ext[1]) \in AUDIO_EXTENSIONS

\* The order of PathBuf on two paths of one directory: bytewise on the names.
RECURSIVE PathLess(_, _)
PathLess(a, b) ==
    IF b = <<>> THEN FALSE
    ELSE IF a = <<>> THEN TRUE
    ELSE IF Head(a) # Head(b) THEN Head(a) < Head(b)
    ELSE PathLess(Tail(a), Tail(b))

RECURSIVE InsertPath(_, _)
InsertPath(p, s) ==
    IF s = <<>> THEN <<p>>
    ELSE IF PathLess(Head(s), p) THEN <<Head(s)>> \o InsertPath(p, Tail(s))
    ELSE <<p>> \o s

\* files.sort()
RECURSIVE SortPaths(_)
SortPathsUnsorted(s) == s
SortPaths(s) ==
    IF s = <<>> THEN <<>> ELSE InsertPath(Head(s), SortPaths(Tail(s)))

\* The names the model puts into a directory.
ScanNames ==
    { <<97, 46, 102, 108, 97, 99>>,        \* a.flac
      <<66, 46, 70, 76, 65, 67>>,          \* B.FLAC
      <<99, 46, 77, 112, 51>>,             \* c.Mp3
      <<97, 46, 109, 112, 51>>,            \* a.mp3
      <<97, 46, 119, 97, 118>>,            \* a.wav
      <<97, 46, 111, 103, 103>>,           \* a.ogg
      <<97, 46, 109, 52, 97>>,             \* a.m4a
      <<97, 46, 111, 112, 117, 115>>,      \* a.opus
      <<97, 46, 98, 46, 119, 118>>,        \* a.b.wv
      <<97, 46, 97, 105, 102>>,            \* a.aif
      <<97, 46, 65, 105, 102, 102>>,       \* a.Aiff
      <<97, 46, 116, 120, 116>>,           \* a.txt
      <<102, 108, 97, 99>>,                \* flac
      <<46, 119, 97, 118>>,                \* .wav
      <<97, 46>> }                         \* a.

\* One item of the ReadDir iterator: Err(_) (ok = FALSE), or a DirEntry with
\* its file name and what path.is_file() answers for it.
DirEntry(ok, name, isfile) == [ok |-> ok, name |-> name, is_file |-> isfile]
ErrEntry == DirEntry(FALSE, <<>>, FALSE)
DirEntries ==
    {DirEntry(TRUE, n, f) : n \in ScanNames, f \in BOOLEAN} \cup {ErrEntry}

\* A directory: whether read_dir succeeds on it, and the items the iterator
\* yields, in the order of the operating system; names are unique.
Directory(readable, entries) == [readable |-> readable, entries |-> entries]
Directories ==
    {Directory(FALSE, <<>>)} \cup
    {Directory(TRUE, e) :
        e \in {x \in UNION {[1..n -> DirEntries] : n \in 0..MaxEntries} :
                 \A i, j \in DOMAIN x :
                    (i # j /\ x[i].ok /\ x[j].ok) => x[i].name # x[j].name}}

InitScan ==
    /\ NoCoordinator
    /\ NoStream
    /\ NoFile
    /\ NoCache
    /\ NoMain
    /\ NoExtra
    /\ dir \in Directories
    /\ spc = "idle"
    /\ sidx = 0
    /\ sfiles = <<>>
    /\ sret = <<>>

\* std::fs::read_dir(path) returns Ok: .into_iter().flatten() walks its items
ReadDirOk ==
    /\ spc = "idle"
    /\ dir.readable
    /\ spc' = "iter"
    /\ UNCHANGED <<coordvars, dvars, fvars, xvars, kvars, mvars, dir, sidx, sfiles, sret>>

\* std::fs::read_dir(path) returns Err: .into_iter() of the Result yields
\* nothing, collect() gives the empty vector, which is sorted and returned
ReadDirErr ==
    /\ spc = "idle"
    /\ ~dir.readable
    /\ spc' = "done"
    /\ sret' = <<SortPaths(<<>>)>>
    /\ UNCHANGED <<coordvars, dvars, fvars, xvars, kvars, mvars, dir, sidx, sfiles>>

\* one item through .filter_map(|e| e.ok()).map(|e| e.path())
\*                  .filter(|p| p.is_file() && is_audio_file(p))
ScanEntry ==
    /\ spc = "iter"
    /\ sidx < Len(dir.entries)
    /\ LET e == dir.entries[sidx + 1]
       IN  /\ sidx' = sidx + 1
           /\ sfiles' = IF e.ok /\ e.is_file /\ is_audio_file(e.name)
                        THEN Append(sfiles, e.name)
                        ELSE sfiles
    /\ UNCHANGED <<coordvars, dvars, fvars, xvars, kvars, mvars, dir, spc, sret>>

\* the iterator is exhausted: collect(), files.sort(), return files
ScanReturn ==
    /\ spc = "iter"
    /\ sidx = Len(dir.entries)
    /\ spc' = "done"
    /\ sret' = <<SortPaths(sfiles)>>
    /\ UNCHANGED <<coordvars, dvars, fvars, xvars, kvars, mvars, dir, sidx, sfiles>>

NextScan ==
    \/ ReadDirOk
    \/ ReadDirErr
    \/ ScanEntry
    \/ ScanReturn

SpecScan == InitScan /\ [][NextScan]_vars

\* ------------------------------------------------ properties of the scan
\* The names of ScanNames that carry one of the nine audio extensions in some
\* letter case.
AudioNames ==
    { <<97, 46, 102, 108, 97, 99>>,        \* a.flac
      <<66, 46, 70, 76, 65, 67>>,          \* B.FLAC
      <<99, 46, 77, 112, 51>>,             \* c.Mp3
      <<97, 46, 109, 112, 51>>,            \* a.mp3
      <<97, 46, 119, 97, 118>>,            \* a.wav
      <<97, 46, 111, 103, 103>>,           \* a.ogg
      <<97, 46, 109, 52, 97>>,             \* a.m4a
      <<97, 46, 111, 112, 117, 115>>,      \* a.opus
      <<97, 46, 98, 46, 119, 118>>,        \* a.b.wv
      <<97, 46, 97, 105, 102>>,            \* a.aif
      <<97, 46, 65, 105, 102, 102>> }      \* a.Aiff

Range(s) == {s[i] : i \in DOMAIN s}

\* C23: scan_audio_files returns exactly the regular files among the
\* immediate children of the directory whose extension, compared without
\* regard to letter case, is one of flac, mp3, wav, ogg, m4a, opus, wv, aif,
\* aiff, each exactly once and in ascending lexicographic path order; files
\* with another extension or with none are excluded.
C23_ScanResult ==
    (spc = "done" /\ dir.readable) =>
        LET r == sret[1]
            expected == {dir.entries[i].name : i \in
                           {j \in DOMAIN dir.entries :
                               /\ dir.entries[j].ok
                               /\ dir.entries[j].is_file
                               /\ dir.entries[j].name \in AudioNames}}
        IN  /\ Range(r) = expected
            /\ Len(r) = Cardinality(expected)
            /\ \A i, j \in DOMAIN r : i < j => PathLess(r[i], r[j])

\* out of order on disk, upper-case extension, next to an excluded file
C23_Witness ==
    /\ spc = "done"
    /\ dir.readable
    /\ Len(dir.entries) = 2
    /\ dir.entries[1] = DirEntry(TRUE, <<97, 46, 102, 108, 97, 99>>, TRUE)
    /\ dir.entries[2] = DirEntry(TRUE, <<66, 46, 70, 76, 65, 67>>, TRUE)
    /\ sret = << << <<66, 46, 70, 76, 65, 67>>,
                    <<97, 46, 102, 108, 97, 99>> >> >>

\* C24: when the directory itself cannot be enumerated, the scan reports the
\* failure to its caller, so that the caller can tell it from a readable
\* directory that holds no audio files (for which the scan returns the empty
\* vector); unreadable entries of a readable directory are skipped silently.
C24_EnumerationFailureReported ==
    /\ (spc = "done" /\ ~dir.readable) => sret # << <<>> >>
    /\ (spc = "done" /\ dir.readable) =>
          \A i \in DOMAIN dir.entries :
             ~dir.entries[i].ok => dir.entries[i].name \notin Range(sret[1])

\* =========================================================================
\* Part 5: the report cache, save_report and load_cached_report on the
\* dr_report.json of one directory.
\* =========================================================================
MaxTracks == 2       \* tracks of the AlbumResult that is saved: 0..MaxTracks

\* models.rs: TrackResult and AlbumResult with all their fields.  peak_db and
\* rms_db are decibel values as db_fs gives them (NegInf included),
\* duration_secs is a whole number of seconds, an Option is <<>> or <<value>>.
CachedTrack(dr, peak_db, rms_db, duration_secs, title, filename, file_bytes) ==
    [dr |-> dr, peak_db |-> peak_db, rms_db |-> rms_db,
     duration_secs |-> duration_secs, title |-> title, filename |-> filename,
     file_bytes |-> file_bytes]

CachedAlbum(tracks, overall_dr, album) ==
    [tracks |-> tracks, overall_dr |-> overall_dr, album |-> album]

CachedTracks ==
    {CachedTrack(dr, peak_db, rms_db, 2, "t", "t.flac", file_bytes) :
        dr \in {0, 1}, peak_db \in {NegInf, Db(1, 1)},
        rms_db \in {NegInf, Db(1, 4)}, file_bytes \in {0, 1}}

CachedAlbums ==
    {CachedAlbum(t, dr, album) :
        t \in UNION {[1..n -> CachedTracks] : n \in 0..MaxTracks},
        dr \in {1}, album \in {<<>>, <<"A">>}}

\* JSON values
JNull == [json |-> "null"]
JNumber(v) == [json |-> "number", v |-> v]
JString(v) == [json |-> "string", v |-> v]
JArray(v) == [json |-> "array", v |-> v]
JObject(v) == [json |-> "object", v |-> v]

\* serde_json on an f64 field holding a decibel value: a finite value is
\* written as the shortest decimal that reads back as the same f64, a value
\* that is not finite is written as null.
SerializeF64(x) == IF x.num > 0 THEN JNumber(x) ELSE JNull

\* #[derive(Serialize)] of TrackResult
SerializeTrack(t) ==
    JObject([dr            |-> JNumber(t.dr),
             peak_db       |-> SerializeF64(t.peak_db),
             rms_db        |-> SerializeF64(t.rms_db),
             duration_secs |-> JNumber(t.duration_secs),
             title         |-> JString(t.title),
             filename      |-> JString(t.filename),
             file_bytes    |-> JNumber(t.file_bytes)])

\* #[derive(Serialize)] of AlbumResult; Option<String>: None is null
SerializeAlbum(a) ==
    JObject([tracks     |-> JArray([i \in DOMAIN a.tracks |->
                                       SerializeTrack(a.tracks[i])]),
             overall_dr |-> JNumber(a.overall_dr),
             album      |-> IF a.album = <<>> THEN JNull
                            ELSE JString(a.album[1])])

\* Deserialize of a number field (u32, u64, f64): <<value>>, or <<>> for the
\* error "invalid type" on anything but a number.
DeserializeNumber(j) == IF j.json = "number" THEN <<j.v>> ELSE <<>>

\* Deserialize of a String field
DeserializeString(j) == IF j.json = "string" THEN <<j.v>> ELSE <<>>

\* Deserialize of an Option<String> field: <<the Option>>, or <<>> for an error
DeserializeOptionString(j) ==
    IF j.json = "null" THEN << <<>> >>
    ELSE IF j.json = "string" THEN << <<j.v>> >>
    ELSE <<>>

\* #[derive(Deserialize)] of TrackResult: every field but file_bytes
\* (#[serde(default)]) must be present and of its type.
DeserializeTrack(j) ==
    IF j.json # "object" THEN <<>>
    ELSE IF ~({"dr", "peak_db", "rms_db", "duration_secs", "title", "filename"}
                \subseteq DOMAIN j.v) THEN <<>>
    ELSE LET o == j.v
             dr == DeserializeNumber(o.dr)
             peak_db == DeserializeNumber(o.peak_db)
             rms_db == DeserializeNumber(o.rms_db)
             duration_secs == DeserializeNumber(o.duration_secs)
             title == DeserializeString(o.title)
             filename == DeserializeString(o.filename)
             file_bytes == IF "file_bytes" \in DOMAIN o
                           THEN DeserializeNumber(o.file_bytes) ELSE <<0>>
         IN  IF \/ dr = <<>> \/ peak_db = <<>> \/ rms_db = <<>>
                \/ duration_secs = <<>> \/ title = <<>> \/ filename = <<>>
                \/ file_bytes = <<>>
             THEN <<>>
             ELSE <<CachedTrack(dr[1], peak_db[1], rms_db[1], duration_secs[1],
                                title[1], filename[1], file_bytes[1])>>

\* #[derive(Deserialize)] of AlbumResult; a missing Option field is None
DeserializeAlbum(j) ==
    IF j.json # "object" THEN <<>>
    ELSE IF ~({"tracks", "overall_dr"} \subseteq DOMAIN j.v) THEN <<>>
    ELSE LET o == j.v
             tracks == IF o.tracks.json = "array"
                       THEN [i \in DOMAIN o.tracks.v |->
                                DeserializeTrack(o.tracks.v[i])]
                       ELSE <<>>
             overall_dr == DeserializeNumber(o.overall_dr)
             album == IF "album" \in DOMAIN o
                      THEN DeserializeOptionString(o.album) ELSE << <<>> >>
         IN  IF \/ o.tracks.json # "array"
                \/ \E i \in DOMAIN tracks : tracks[i] = <<>>
                \/ overall_dr = <<>>
                \/ album = <<>>
             THEN <<>>
             ELSE <<CachedAlbum([i \in DOMAIN tracks |-> tracks[i][1]],
                                overall_dr[1], album[1])>>

InitCache ==
    /\ NoCoordinator
    /\ NoStream
    /\ NoFile
    /\ NoScan
    /\ NoMain
    /\ NoExtra
    /\ report \in CachedAlbums
    /\ cache_file = <<>>
    /\ kpc = "idle"
    /\ loaded = <<>>

\* save_report returns Ok: dr_report.json holds to_string_pretty(result)
SaveReport ==
    /\ kpc = "idle"
    /\ cache_file' = <<SerializeAlbum(report)>>
    /\ kpc' = "saved"
    /\ UNCHANGED <<coordvars, dvars, fvars, xvars, svars, mvars, report, loaded>>

\* save_report returns Err: std::fs::write failed
SaveReportFailed ==
    /\ kpc = "idle"
    /\ kpc' = "save_failed"
    /\ UNCHANGED <<coordvars, dvars, fvars, xvars, svars, mvars, report, cache_file, loaded>>

\* load_cached_report: read_to_string(..).ok()?, from_str(..).ok()
LoadCachedReport ==
    /\ kpc \in {"saved", "save_failed"}
    /\ loaded' = IF cache_file = <<>> THEN <<>>
                 ELSE DeserializeAlbum(cache_file[1])
    /\ kpc' = IF kpc = "saved" THEN "loaded" ELSE "loaded_nothing"
    /\ UNCHANGED <<coordvars, dvars, fvars, xvars, svars, mvars, report, cache_file>>

NextCache ==
    \/ SaveReport
    \/ SaveReportFailed
    \/ LoadCachedReport

SpecCache == InitCache /\ [][NextCache]_vars

\* ---------------------------------------- properties of the report cache
\* C25: for every AlbumResult the data model allows (any number of tracks,
\* album present or absent, peak_db and rms_db finite or negative infinity),
\* writing it with save_report and reading it back with load_cached_report
\* yields a structurally equal AlbumResult.
C25_CacheRoundTrip ==
    kpc = "loaded" => loaded = <<report>>

\* =========================================================================
\* Part 6: main (src/src/main.rs): the checks on the command line, the
\* dispatch on the path, run_bulk, and the plain directory mode.
\* =========================================================================
MaxSubdirs == 2      \* subdirectories run_bulk finds: 0..MaxSubdirs

\* What the path argument names: "-" (STDIN), a file, a directory (also the
\* default "." of an absent argument), or none of these.
PathKinds == {"-", "file", "dir", "other"}

\* struct Cli after Cli::parse(); jobs is handed on unchanged and left out.
Cli(path, format, json, tui, regenerate, bulk, txt) ==
    [path |-> path, format |-> format, json |-> json, tui |-> tui,
     regenerate |-> regenerate, bulk |-> bulk, txt |-> txt]

Clis ==
    {Cli(path, format, json, tui, regenerate, bulk, txt) :
        path \in PathKinds, format \in {<<>>, <<"flac">>},
        json \in BOOLEAN, tui \in BOOLEAN, regenerate \in BOOLEAN,
        bulk \in BOOLEAN, txt \in BOOLEAN}

\* A report file of a directory:
\*   "absent"   no such file
\*   "old"      a report an earlier run wrote
\*   "garbage"  the file exists and holds no complete report
\*   "new"      the report this run wrote
Reports(json, txt) == [json |-> json, txt |-> txt]

SubdirLists ==
    UNION {[1..n -> {Reports(j, t) : j \in {"absent", "old"},
                                     t \in {"absent", "old"}}] :
             n \in 0..MaxSubdirs}

\* The directory the path names: whether read_dir succeeds on it, and its own
\* report files.
BaseDir(readable, json, txt) ==
    [readable |-> readable, json |-> json, txt |-> txt]

\* main lines 138-143: the error main bails with, <<>> if there is none
ValidateBulkTuiOnly(c) ==
    IF c.bulk /\ c.tui
    THEN <<Err("--bulk and --tui cannot be used together")>>
    ELSE <<>>
Validate(c) ==
    IF c.bulk /\ c.tui
    THEN <<Err("--bulk and --tui cannot be used together")>>
    ELSE IF c.bulk /\ ~c.json /\ ~c.txt
    THEN <<Err("--bulk requires at least one output format: --json and/or --txt")>>
    ELSE <<>>

\* cache::reports_exist(dir, json, txt); exists() holds for any file there
ReportsExistAny(d, json, txt) ==
    (json /\ d.json # "absent") \/ (txt /\ d.txt # "absent")
reports_exist(d, json, txt) ==
    IF json /\ d.json = "absent" THEN FALSE
    ELSE IF txt /\ d.txt = "absent" THEN FALSE
    ELSE TRUE

\* run_bulk lines 108-117: the report kinds written after a successful
\* analysis, in the order of the calls
RequestedKindsJsonAlways(write_json, write_txt) ==
    <<"json">> \o (IF write_txt THEN <<"txt">> ELSE <<>>)
RequestedKinds(write_json, write_txt) ==
    (IF write_json THEN <<"json">> ELSE <<>>) \o
    (IF write_txt THEN <<"txt">> ELSE <<>>)

\* Variant of UseCache: --regenerate is not looked at
UseCacheDespiteRegenerate(c, d) == d.json = "old"

\* main lines 187-188: without --regenerate, load_cached_report returns Some,
\* which it does when dr_report.json is there and parses
UseCache(c, d) == ~c.regenerate /\ d.json = "old"

\* std::fs::write(path, contents): on success the file holds the new report;
\* on failure it is left as it was (the file could not be created) or holds
\* an incomplete report (created and truncated, then the write failed).
WriteOutcomes(before) == {"new", before, "garbage"}

\* An analysis call and whether it returned Ok
Analysis(target, ok) == [target |-> target, ok |-> ok]
\* A call of save_report ("json") or save_text_report ("txt") on a directory
ReportWrite(target, kind) == [target |-> target, kind |-> kind]
\* One println! of a result: its rendering and where the result came from
Printed(rendering, from) == [rendering |-> rendering, from |-> from]

Rendering(c) == IF c.json THEN "json" ELSE "table"

InitMain ==
    /\ NoCoordinator
    /\ NoStream
    /\ NoFile
    /\ NoScan
    /\ NoCache
    /\ NoExtra
    /\ cli \in Clis
    /\ base \in IF cli.path # "dir" THEN {BaseDir(FALSE, "absent", "absent")}
                ELSE IF cli.bulk
                THEN {BaseDir(r, "absent", "absent") : r \in BOOLEAN}
                ELSE {BaseDir(TRUE, j, "absent") :
                         j \in {"absent", "old", "garbage"}}
    /\ subdirs \in IF cli.path = "dir" /\ cli.bulk /\ base.readable
                   THEN SubdirLists ELSE {<<>>}
    /\ mpc = "start"
    /\ bi = 0
    /\ tally = [analyzed |-> 0, skipped |-> 0, failed |-> 0]
    /\ analyses = <<>>
    /\ writes = <<>>
    /\ printed = <<>>
    /\ mexit = <<>>

\* lines 138-143: anyhow::bail! on a rejected combination of flags
Reject ==
    /\ mpc = "start"
    /\ Validate(cli) # <<>>
    /\ mpc' = "done"
    /\ mexit' = Validate(cli)
    /\ UNCHANGED <<coordvars, dvars, fvars, xvars, svars, kvars, cli, base, subdirs,
                   bi, tally, analyses, writes, printed>>

\* lines 149-153: path "-" without --format
StdinNoFormat ==
    /\ mpc = "start"
    /\ Validate(cli) = <<>>
    /\ cli.path = "-"
    /\ cli.format = <<>>
    /\ mpc' = "done"
    /\ mexit' = <<Err("--format is required when reading from STDIN")>>
    /\ UNCHANGED <<coordvars, dvars, fvars, xvars, svars, kvars, cli, base, subdirs,
                   bi, tally, analyses, writes, printed>>

\* lines 149-160 (path "-") and 166-174 (a file): one analysis, its result
\* printed, or its error returned
SingleMode ==
    /\ mpc = "start"
    /\ Validate(cli) = <<>>
    /\ \/ cli.path = "-" /\ cli.format # <<>>
       \/ cli.path = "file"
    /\ \E ok \in BOOLEAN :
          /\ analyses' = Append(analyses, Analysis(cli.path, ok))
          /\ printed' = IF ok
                        THEN Append(printed, Printed(Rendering(cli), "analysis"))
                        ELSE printed
          /\ mexit' = IF ok THEN <<Ok("()")>> ELSE <<Err("analysis failed")>>
    /\ mpc' = "done"
    /\ UNCHANGED <<coordvars, dvars, fvars, xvars, svars, kvars, cli, base, subdirs,
                   bi, tally, writes>>

\* lines 177-180: return dr::tui::run(path, jobs, cli.regenerate)
TuiMode ==
    /\ mpc = "start"
    /\ Validate(cli) = <<>>
    /\ cli.path = "dir"
    /\ cli.tui
    /\ mpc' = "done"
    /\ mexit' = <<Ok("tui::run")>>
    /\ UNCHANGED <<coordvars, dvars, fvars, xvars, svars, kvars, cli, base, subdirs,
                   bi, tally, analyses, writes, printed>>

\* run_bulk lines 69-70: read_dir on the base path fails
BulkReadDirFailed ==
    /\ mpc = "start"
    /\ Validate(cli) = <<>>
    /\ cli.path = "dir" /\ ~cli.tui /\ cli.bulk
    /\ ~base.readable
    /\ mpc' = "done"
    /\ mexit' = <<Err("Failed to read directory")>>
    /\ UNCHANGED <<coordvars, dvars, fvars, xvars, svars, kvars, cli, base, subdirs,
                   bi, tally, analyses, writes, printed>>

\* run_bulk lines 69-85: no subdirectory found
BulkNoSubdirs ==
    /\ mpc = "start"
    /\ Validate(cli) = <<>>
    /\ cli.path = "dir" /\ ~cli.tui /\ cli.bulk
    /\ base.readable
    /\ subdirs = <<>>
    /\ mpc' = "done"
    /\ mexit' = <<Err("No subdirectories found")>>
    /\ UNCHANGED <<coordvars, dvars, fvars, xvars, svars, kvars, cli, base, subdirs,
                   bi, tally, analyses, writes, printed>>

\* run_bulk lines 69-90: the sorted subdirectories, the counters at zero
BulkStart ==
    /\ mpc = "start"
    /\ Validate(cli) = <<>>
    /\ cli.path = "dir" /\ ~cli.tui /\ cli.bulk
    /\ base.readable
    /\ subdirs # <<>>
    /\ mpc' = "bulk"
    /\ bi' = 0
    /\ tally' = [analyzed |-> 0, skipped |-> 0, failed |-> 0]
    /\ UNCHANGED <<coordvars, dvars, fvars, xvars, svars, kvars, cli, base, subdirs,
                   analyses, writes, printed, mexit>>

\* run_bulk lines 98-102: reports exist and --regenerate is absent
BulkSkip ==
    /\ mpc = "bulk"
    /\ bi < Len(subdirs)
    /\ ~cli.regenerate /\ reports_exist(subdirs[bi + 1], cli.json, cli.txt)
    /\ tally' = [tally EXCEPT !.skipped = @ + 1]
    /\ bi' = bi + 1
    /\ UNCHANGED <<coordvars, dvars, fvars, xvars, svars, kvars, cli, base, subdirs,
                   mpc, analyses, writes, printed, mexit>>

\* The report files of directory d after the writes of the given kinds, one
\* std::fs::write per kind, each with one of its outcomes.
AfterWrites(d, kinds) ==
    {[d EXCEPT !.json = j, !.txt = t] :
        j \in IF \E k \in DOMAIN kinds : kinds[k] = "json"
              THEN WriteOutcomes(d.json) ELSE {d.json},
        t \in IF \E k \in DOMAIN kinds : kinds[k] = "txt"
              THEN WriteOutcomes(d.txt) ELSE {d.txt}}

\* run_bulk lines 104-119: analyze_directory returns Ok; the requested
\* reports are written, a failed write is a warning
BulkAnalyzeOk ==
    /\ mpc = "bulk"
    /\ bi < Len(subdirs)
    /\ ~(~cli.regenerate /\ reports_exist(subdirs[bi + 1], cli.json, cli.txt))
    /\ LET i == bi + 1
           kinds == RequestedKinds(cli.json, cli.txt)
       IN  /\ analyses' = Append(analyses, Analysis(i, TRUE))
           /\ writes' = writes \o
                        [k \in DOMAIN kinds |-> ReportWrite(i, kinds[k])]
           /\ \E d \in AfterWrites(subdirs[i], kinds) :
                 subdirs' = [subdirs EXCEPT ![i] = d]
    /\ tally' = [tally EXCEPT !.analyzed = @ + 1]
    /\ bi' = bi + 1
    /\ UNCHANGED <<coordvars, dvars, fvars, xvars, svars, kvars, cli, base, mpc,
                   printed, mexit>>

\* run_bulk lines 104-106, 120-123: analyze_directory returns Err
BulkAnalyzeFailed ==
    /\ mpc = "bulk"
    /\ bi < Len(subdirs)
    /\ ~(~cli.regenerate /\ reports_exist(subdirs[bi + 1], cli.json, cli.txt))
    /\ analyses' = Append(analyses, Analysis(bi + 1, FALSE))
    /\ tally' = [tally EXCEPT !.failed = @ + 1]
    /\ bi' = bi + 1
    /\ UNCHANGED <<coordvars, dvars, fvars, xvars, svars, kvars, cli, base, subdirs,
                   mpc, writes, printed, mexit>>

\* run_bulk lines 127-132: the summary line and Ok(())
BulkDone ==
    /\ mpc = "bulk"
    /\ bi = Len(subdirs)
    /\ mpc' = "done"
    /\ mexit' = <<Ok("()")>>
    /\ UNCHANGED <<coordvars, dvars, fvars, xvars, svars, kvars, cli, base, subdirs,
                   bi, tally, analyses, writes, printed>>

\* lines 186-197: the cached report is loaded and printed
DirCached ==
    /\ mpc = "start"
    /\ Validate(cli) = <<>>
    /\ cli.path = "dir" /\ ~cli.tui /\ ~cli.bulk
    /\ UseCache(cli, base)
    /\ printed' = Append(printed, Printed(Rendering(cli), "cache"))
    /\ mpc' = "done"
    /\ mexit' = <<Ok("()")>>
    /\ UNCHANGED <<coordvars, dvars, fvars, xvars, svars, kvars, cli, base, subdirs,
                   bi, tally, analyses, writes>>

\* lines 199-222: analyze_directory returns Ok; the cache is saved, the text
\* report too with --txt, the result is printed
DirAnalyzeOk ==
    /\ mpc = "start"
    /\ Validate(cli) = <<>>
    /\ cli.path = "dir" /\ ~cli.tui /\ ~cli.bulk
    /\ ~UseCache(cli, base)
    /\ LET kinds == RequestedKinds(TRUE, cli.txt)
       IN  /\ analyses' = Append(analyses, Analysis("dir", TRUE))
           /\ writes' = writes \o
                        [k \in DOMAIN kinds |-> ReportWrite("dir", kinds[k])]
           /\ \E d \in AfterWrites(base, kinds) : base' = d
    /\ printed' = Append(printed, Printed(Rendering(cli), "analysis"))
    /\ mpc' = "done"
    /\ mexit' = <<Ok("()")>>
    /\ UNCHANGED <<coordvars, dvars, fvars, xvars, svars, kvars, cli, subdirs, bi,
                   tally>>

\* line 200: analyze_directory returns Err, which main returns
DirAnalyzeFailed ==
    /\ mpc = "start"
    /\ Validate(cli) = <<>>
    /\ cli.path = "dir" /\ ~cli.tui /\ ~cli.bulk
    /\ ~UseCache(cli, base)
    /\ analyses' = Append(analyses, Analysis("dir", FALSE))
    /\ mpc' = "done"
    /\ mexit' = <<Err("analysis failed")>>
    /\ UNCHANGED <<coordvars, dvars, fvars, xvars, svars, kvars, cli, base, subdirs,
                   bi, tally, writes, printed>>

\* line 225: the path is neither a file nor a directory
NotFileOrDir ==
    /\ mpc = "start"
    /\ Validate(cli) = <<>>
    /\ cli.path = "other"
    /\ mpc' = "done"
    /\ mexit' = <<Err("is not a file or directory")>>
    /\ UNCHANGED <<coordvars, dvars, fvars, xvars, svars, kvars, cli, base, subdirs,
                   bi, tally, analyses, writes, printed>>

NextMain ==
    \/ Reject
    \/ StdinNoFormat
    \/ SingleMode
    \/ TuiMode
    \/ BulkReadDirFailed
    \/ BulkNoSubdirs
    \/ BulkStart
    \/ BulkSkip
    \/ BulkAnalyzeOk
    \/ BulkAnalyzeFailed
    \/ BulkDone
    \/ DirCached
    \/ DirAnalyzeOk
    \/ DirAnalyzeFailed
    \/ NotFileOrDir

SpecMain == InitMain /\ [][NextMain]_vars

\* --------------------------------------------------- properties of main
IsErr(r) == r # <<>> /\ ~r[1].ok

\* C26: the command line rejects --bulk together with --tui, rejects --bulk
\* without --json or --txt, and rejects the path "-" without --format; each
\* rejection ends the run with an error, before any file is analyzed and
\* before any report file is written.
C26_Rejections ==
    (\/ cli.bulk /\ cli.tui
     \/ cli.bulk /\ ~cli.json /\ ~cli.txt
     \/ cli.path = "-" /\ cli.format = <<>>) =>
        /\ analyses = <<>>
        /\ writes = <<>>
        /\ printed = <<>>
        /\ mpc \in {"start", "done"}
        /\ mpc = "done" => IsErr(mexit)

\* --bulk without an output format on a directory with two subdirectories
C26_Witness ==
    /\ mpc = "done"
    /\ cli.bulk /\ ~cli.tui /\ ~cli.json /\ ~cli.txt
    /\ cli.path = "dir"
    /\ Len(subdirs) = 2
    /\ IsErr(mexit)

\* The kinds of report written for directory i so far.
WrittenKinds(w, i) == {w[k].kind : k \in {x \in DOMAIN w : w[x].target = i}}

Requested == {k \in {"json", "txt"} : (k = "json" /\ cli.json) \/
                                      (k = "txt" /\ cli.txt)}

\* Every requested report file is present in subdirectory d.
AllRequestedExist(d) ==
    /\ cli.json => d.json # "absent"
    /\ cli.txt => d.txt # "absent"

\* A step of the loop of run_bulk that handles subdirectory bi + 1.
BulkStep == mpc = "bulk" /\ bi' = bi + 1

\* The step neither analyzes the subdirectory nor touches its report files.
SkipsSubdir ==
    /\ analyses' = analyses
    /\ writes' = writes
    /\ subdirs' = subdirs

\* C27 as stated: in bulk mode a subdirectory is skipped (not analyzed, its
\* report files not rewritten) if and only if --regenerate is absent and
\* every requested report file already exists in it; with --regenerate every
\* subdirectory is analyzed and its requested reports are rewritten.
C27_SkipIffReportsExist ==
    [][BulkStep =>
         /\ SkipsSubdir <=>
               (~cli.regenerate /\ AllRequestedExist(subdirs[bi + 1]))
         /\ cli.regenerate =>
               /\ Len(analyses') = Len(analyses) + 1
               /\ WrittenKinds(writes', bi + 1) = Requested]_vars

\* C27, amended: in bulk mode a subdirectory is skipped (not analyzed, its
\* report files not rewritten) if and only if --regenerate is absent and
\* every requested report file already exists in it; with --regenerate every
\* subdirectory is analyzed, and its requested reports are rewritten when its
\* analysis succeeds; when the analysis fails no report of it is written.
C27_SkipIffReportsExistAmended ==
    [][BulkStep =>
         /\ SkipsSubdir <=>
               (~cli.regenerate /\ AllRequestedExist(subdirs[bi + 1]))
         /\ cli.regenerate =>
               /\ Len(analyses') = Len(analyses) + 1
               /\ analyses'[Len(analyses')].target = bi + 1
               /\ WrittenKinds(writes', bi + 1) =
                     IF analyses'[Len(analyses')].ok THEN Requested ELSE {}]_vars

\* with --regenerate, a subdirectory that held both reports is analyzed again
\* and both are rewritten; the next one fails and keeps its old reports
C27_Witness ==
    /\ mpc = "done"
    /\ cli.regenerate /\ cli.json /\ cli.txt
    /\ Len(subdirs) = 2
    /\ subdirs[1] = Reports("new", "new")
    /\ subdirs[2] = Reports("old", "old")
    /\ analyses = <<Analysis(1, TRUE), Analysis(2, FALSE)>>
    /\ writes = <<ReportWrite(1, "json"), ReportWrite(1, "txt")>>

\* The subdirectories the loop of run_bulk has handled.
Handled == 1..bi

AnalyzedOk(i) == \E k \in DOMAIN analyses : analyses[k] = Analysis(i, TRUE)

\* The report files the step leaves alone: every file of another
\* subdirectory, and the files of kinds that were not requested.
C28_Frame ==
    BulkStep =>
        \A i \in DOMAIN subdirs :
           /\ (i # bi + 1 \/ ~cli.json) => subdirs'[i].json = subdirs[i].json
           /\ (i # bi + 1 \/ ~cli.txt) => subdirs'[i].txt = subdirs[i].txt

C28_Inv ==
    (mpc \in {"bulk", "done"} /\ cli.bulk /\ Validate(cli) = <<>>) =>
        /\ \A i \in Handled :
              WrittenKinds(writes, i) = IF AnalyzedOk(i) THEN Requested ELSE {}
        /\ \A k, l \in DOMAIN writes : writes[k] = writes[l] => k = l
        /\ tally.analyzed + tally.skipped + tally.failed = bi
        /\ (mpc = "done" /\ subdirs # <<>> /\ base.readable) =>
              /\ bi = Len(subdirs)
              /\ mexit = <<Ok("()")>>

\* C28: in bulk mode, for each successfully analyzed subdirectory exactly the
\* requested report kinds are written: dr_report.json is written iff --json
\* was given and dr_report.txt iff --txt was given; and the analysis failure
\* of one subdirectory does not stop the processing of the following ones.
C28_RequestedReportsOnly == []C28_Inv /\ [][C28_Frame]_vars

\* --txt only: the first subdirectory fails, the second is analyzed and gets
\* dr_report.txt and no dr_report.json
C28_Witness ==
    /\ mpc = "done"
    /\ cli.bulk /\ cli.txt /\ ~cli.json
    /\ Len(subdirs) = 2
    /\ analyses = <<Analysis(1, FALSE), Analysis(2, TRUE)>>
    /\ writes = <<ReportWrite(2, "txt")>>
    /\ subdirs[2] = Reports("absent", "new")
    /\ mexit = <<Ok("()")>>

\* =========================================================================
\* Part 7: finalize on a StreamingDrState that holds several completed
\* blocks (one channel, one sample per second, three samples per block).
\* =========================================================================
MaxBlocks == 6       \* completed blocks of the state finalized: 0..MaxBlocks

\* The samples of one block: silence, one quiet sample, one loud sample, a
\* loud block.
BlockPatterns == {<<0, 0, 0>>, <<1, 0, 0>>, <<-2, 0, 0>>, <<-2, -2, -2>>}

RECURSIVE Concat(_)
Concat(blocks) ==
    IF blocks = <<>> THEN <<>> ELSE Head(blocks) \o Concat(Tail(blocks))

\* state = StreamingDrState::new(1, 1) after one push_samples of n blocks
InitFinal ==
    /\ NoCoordinator
    /\ NoFile
    /\ NoUtil
    /\ \E n \in 0..MaxBlocks : \E blocks \in [1..n -> BlockPatterns] :
          /\ pushed = Concat(blocks)
          /\ state = push_samples(New(1, 1), Concat(blocks))
    /\ whole = TRUE
    /\ pushes = 1
    /\ out = <<>>

NextFinal == Finalize

SpecFinal == InitFinal /\ [][NextFinal]_vars

\* ----------------------------------------------- properties of finalize
\* The second-largest of a list of peaks, counted with multiplicity: at most
\* one entry is larger and at least two are as large.
SecondLargest(peaks) ==
    IF Len(peaks) = 1 THEN peaks[1]
    ELSE CHOOSE p \in Range(peaks) :
            /\ Cardinality({i \in DOMAIN peaks : peaks[i] > p}) <= 1
            /\ Cardinality({i \in DOMAIN peaks : peaks[i] >= p}) >= 2

\* The channel DR of 20 * log10(peak / rms), 0.0 unless both are positive.
ExpectedChannelDr(peak, rms) ==
    IF peak > 0 /\ rms.num > 0 THEN Db(peak * peak * rms.den, rms.num)
    ELSE Db(1, 1)

\* C31: in finalize the representative peak of a channel used for the DR
\* computation is the second-largest of the channel's block peaks when two
\* blocks or more were completed (the largest when the two largest tie), and
\* the single block peak when one block was completed.
C31_RepresentativePeak ==
    (Finalized /\ NumBlocks >= 1) =>
        /\ \A c \in 1..state.channels :
              ChannelReduce(state.block_rms[c], state.block_peaks[c],
                            NumBlocks).peak = SecondLargest(state.block_peaks[c])
        /\ out[1].dr =
              AsU32(RoundMean([c \in 1..state.channels |->
                 ExpectedChannelDr(
                    SecondLargest(state.block_peaks[c]),
                    ChannelReduce(state.block_rms[c], state.block_peaks[c],
                                  NumBlocks).combined_rms)]))

\* three blocks with peaks 1, 2, 0: the representative peak is 1, neither the
\* highest nor the lowest
C31_Witness ==
    /\ Finalized
    /\ state.channels = 1
    /\ state.block_peaks[1] = <<1, 2, 0>>
    /\ ChannelReduce(state.block_rms[1], state.block_peaks[1], 3).peak = 1

RECURSIVE SumNum(_, _)
SumNum(rms, S) ==
    IF S = {} THEN 0
    ELSE LET i == CHOOSE x \in S : TRUE
         IN  rms[i].num + SumNum(rms, S \ {i})

\* r is the quadratic mean of the k largest of the block-RMS values rms,
\* which all have the denominator d under the root: for some k indices
\* whose values are at least those of all others, r^2 = (sum of squares) / k.
IsQuadraticMeanOfTop(r, rms, k, d) ==
    \E S \in SUBSET DOMAIN rms :
       /\ Cardinality(S) = k
       /\ \A i \in S : \A j \in DOMAIN rms \ S : ~RootGt(rms[j], rms[i])
       /\ r.num * d * k = r.den * SumNum(rms, S)

\* The number of values the claim names for n blocks.
FifthRoundedUp(n) == IF n <= 5 THEN 1 ELSE IF n <= 10 THEN 2 ELSE 3

\* C32: in finalize, for n >= 1 completed blocks the combined RMS of a
\* channel is the quadratic mean of exactly max(1, ceil(n / 5)) block-RMS
\* values, the largest ones of the channel (1 value for n in 1..5, 2 for n in
\* 6..10); with one channel rms_db is db_fs of that combined RMS.
C32_TopFifthQuadraticMean ==
    (Finalized /\ NumBlocks >= 1) =>
        /\ \A c \in 1..state.channels :
              /\ \A i \in 1..NumBlocks :
                    state.block_rms[c][i].den = state.block_frames
              /\ IsQuadraticMeanOfTop(
                    ChannelReduce(state.block_rms[c], state.block_peaks[c],
                                  NumBlocks).combined_rms,
                    state.block_rms[c], FifthRoundedUp(NumBlocks),
                    state.block_frames)
        /\ state.channels = 1 =>
              LET r == ChannelReduce(state.block_rms[1], state.block_peaks[1],
                                     NumBlocks).combined_rms
              IN  IF r.num = 0 THEN out[1].rms_db.num = 0
                  ELSE DbEq(out[1].rms_db, Db(r.num, r.den))

\* six blocks: the two loudest (sum of squares 12 and 4, block RMS squared 8
\* and 8/3) are combined, the combined RMS squared is (8 + 8/3) / 2
C32_Witness ==
    /\ Finalized
    /\ NumBlocks = 6
    /\ pushed = <<1, 0, 0, -2, -2, -2, 0, 0, 0, 1, 0, 0, -2, 0, 0, 0, 0, 0>>
    /\ DbEq(out[1].rms_db, Db(16, 3))

\* ------------------------------ properties of the coordinator, continued
\* The sum of the dr values of the files in the set I.
RECURSIVE SumDrOver(_)
SumDrOver(I) ==
    IF I = {} THEN 0
    ELSE LET i == CHOOSE x \in I : TRUE IN files[i].dr + SumDrOver(I \ {i})

\* C33: in the AlbumResult sent with AlbumCompleted, tracks holds exactly the
\* results of the files whose analysis succeeded, each once (a file that
\* produced an Error event is absent), overall_dr is the rounded mean of dr
\* over those tracks only, and overall_dr = 0 with an empty tracks list when
\* every file failed.
C33_AlbumOfSucceededTracks ==
    /\ Len(events[-1]) <= 1
    /\ \A k \in 1..Len(events[-1]) :
          LET a == events[-1][k].data[1]
              t == a.tracks
              good == Indices \ Failing
              n == Cardinality(good)
              sum == SumDrOver(good)
          IN  /\ events[-1][k].type = "AlbumCompleted"
              /\ Len(t) = n
              /\ {t[j].filename : j \in 1..Len(t)} = good
              /\ \A j \in 1..Len(t) : t[j] = TrackResult(t[j].filename)
              /\ \A i \in Failing : Count("Error", i) = 1
              /\ 2 * n * a.overall_dr - n <= 2 * sum
              /\ 2 * sum < 2 * n * a.overall_dr + n \/ n = 0
              /\ n = 0 => (a.overall_dr = 0 /\ t = <<>>)

\* two files succeed with dr 1 each, overall_dr is 1
C33_Witness ==
    /\ Returned("async")
    /\ file_count = 2
    /\ Failing = {}
    /\ files[0].dr = 1 /\ files[1].dr = 1
    /\ Len(events[-1]) = 1
    /\ events[-1][1].data[1].overall_dr = 1
    /\ Len(events[-1][1].data[1].tracks) = 2

\* every file fails: the album has no track and overall_dr 0
C33_WitnessAllFailed ==
    /\ Returned("async")
    /\ file_count = 2
    /\ Failing = {0, 1}
    /\ Len(events[-1]) = 1
    /\ events[-1][1].data[1].tracks = <<>>
    /\ events[-1][1].data[1].overall_dr = 0

\* A worker thread that is running can take its next step whatever the other
\* workers are doing.
NoWorkerWaits ==
    \A w \in Workers :
       wpc[w] \notin {"unspawned", "exited"} => ENABLED WorkerStep(w)

\* C34: with every single-file analysis terminating and a fair scheduler,
\* every worker of analyze_directory / analyze_directory_async eventually
\* exits and the coordinator returns; workers never wait on one another; and
\* when all have exited the shared next-index counter equals file_count plus
\* the number of workers.
C34_WorkersExitCoordinatorReturns ==
    /\ <>[](/\ cpc = "done"
            /\ \A w \in Workers : wpc[w] \in {"unspawned", "exited"})
    /\ []NoWorkerWaits
    /\ [](AllExited => next_index = file_count + handles)

\* two workers have drawn two files and one exhausted index each
C34_Witness ==
    /\ cpc = "done"
    /\ handles = 2
    /\ file_count = 2
    /\ wpc[0] = "exited" /\ wpc[1] = "exited"
    /\ next_index = 4

\* ---------------------------------------------------------------------------
\* Part 8: one push_samples call, followed iteration by iteration of the while
\* loop of process_slice, on states of every sample rate the codec parameters
\* can carry
\* ---------------------------------------------------------------------------
MaxRecords == 4      \* block records per channel the allocator can supply
MaxLoopSamples == 7  \* samples pushed into the state of the call: 0..MaxLoopSamples

\* codec_params.sample_rate.unwrap_or(44100) as usize: any value >= 0
CodecSampleRates == SampleRates \cup {0}

\* A state before the call followed: fresh, or after a first short push.  A
\* state of sample rate 0 is taken fresh: no push on it was seen to return.
InitLoop ==
    /\ NoCoordinator
    /\ NoFile
    /\ NoScan
    /\ NoCache
    /\ NoMain
    /\ NoTui
    /\ \E channels \in ChannelCounts, sample_rate \in CodecSampleRates :
          \E first \in {<<>>, <<-2>>} :
             /\ sample_rate = 0 => first = <<>>
             /\ state = IF first = <<>>
                        THEN New(channels, sample_rate)
                        ELSE push_samples(New(channels, sample_rate), first)
             /\ pushed = first
             /\ whole = (channels = 1 \/ first = <<>>)
             /\ pushes = Len(first)
    /\ out = <<>>
    /\ loop_pc = "idle"
    /\ loop_input = <<>>
    /\ loop_data = <<>>
    /\ loop_offset = 0

\* The slices the call followed is given: every length still possible, of
\* loud and of silent samples.
LoopSlices ==
    UNION {[1..n -> {-2, 0}] : n \in 0..(MaxLoopSamples - Len(pushed))}

\* push_samples up to its call of process_slice: the early return for no
\* channels, else the residual is taken and the input appended to it.
CallPush ==
    /\ loop_pc = "idle"
    /\ \E slice \in LoopSlices :
          /\ pushed' = pushed \o slice
          /\ whole' = (whole /\ WholeFrames(slice))
          /\ loop_input' = slice
          /\ IF state.channels = 0
             THEN /\ loop_pc' = "done"
                  /\ loop_data' = <<>>
                  /\ state' = state
             ELSE /\ loop_pc' = "loop"
                  /\ loop_data' = IF state.residual = <<>>
                                  THEN slice
                                  ELSE state.residual \o slice
                  /\ state' = [state EXCEPT !.residual = <<>>]
    /\ pushes' = pushes + 1
    /\ loop_offset' = 0
    /\ UNCHANGED <<coordvars, fvars, svars, kvars, mvars, tvars, out>>

\* let block_size = self.block_frames * channels;
BlockSize == state.block_frames * state.channels

\* (self.block_frames - self.current_block_frames) * channels
RemainingSamples ==
    (state.block_frames - state.current_block_frames) * state.channels

\* while offset + block_size <= data.len() + self.current_block_frames * channels
WhileCondition ==
    loop_offset + BlockSize
        <= Len(loop_data) + state.current_block_frames * state.channels

\* if offset + remaining_samples > data.len() { break; }
Break == loop_offset + RemainingSamples > Len(loop_data)

\* One iteration of the while loop that completes a block.
LoopIter ==
    /\ loop_pc = "loop"
    /\ WhileCondition
    /\ ~Break
    /\ Len(state.block_rms[1]) < MaxRecords
    /\ LET chunk == SubSeq(loop_data, loop_offset + 1,
                           loop_offset + RemainingSamples)
       IN  state' = CloseBlock(Accumulate(state, chunk))
    /\ loop_offset' = loop_offset + RemainingSamples
    /\ UNCHANGED <<coordvars, fvars, svars, kvars, mvars, tvars, pushed, whole, pushes,
                   out, loop_pc, loop_input, loop_data>>

\* The iteration in which block_rms[ch].push finds no memory left: the
\* process is aborted, the call never returns.
LoopAbort ==
    /\ loop_pc = "loop"
    /\ WhileCondition
    /\ ~Break
    /\ Len(state.block_rms[1]) >= MaxRecords
    /\ loop_pc' = "aborted"
    /\ UNCHANGED <<coordvars, fvars, svars, kvars, mvars, tvars, dvars, loop_input,
                   loop_data, loop_offset>>

\* The loop is left, by its condition or by the break; the leftover pass runs
\* and push_samples returns.
LoopExit ==
    /\ loop_pc = "loop"
    /\ ~WhileCondition \/ Break
    /\ state' = LeftoverPass(state, loop_data, loop_offset)
    /\ loop_pc' = "done"
    /\ UNCHANGED <<coordvars, fvars, svars, kvars, mvars, tvars, pushed, whole, pushes,
                   out, loop_input, loop_data, loop_offset>>

NextLoop ==
    \/ CallPush
    \/ LoopIter
    \/ LoopAbort
    \/ LoopExit

\* The thread inside push_samples keeps running.
SpecLoop ==
    /\ InitLoop
    /\ [][NextLoop]_vars
    /\ WF_<<state, lvars>>(LoopIter \/ LoopAbort \/ LoopExit)

\* C35: every call to push_samples terminates, for every channel count,
\* every sample rate >= 0 the codec parameters can carry and every input
\* length: a call that has entered process_slice eventually returns.
C35_PushSamplesTerminates == (loop_pc = "loop") ~> (loop_pc = "done")

\* The call followed has returned, on a state with channels and a sample rate.
PushReturned ==
    /\ loop_pc = "done"
    /\ state.channels >= 1
    /\ state.sample_rate >= 1

\* The per-channel accumulators of the block in progress are all zero.
AccumulatorsZero ==
    \A c \in 1..state.channels : state.ch_sum_sq[c] = 0 /\ state.ch_peak[c] = 0

\* The argument of the call held whole interleaved frames only.
WholeFrameInput == Len(loop_input) % state.channels = 0

\* After a call the fill count of the block in progress is below block_frames
\* and the residual is shorter than one frame.
FillAndResidualInRange ==
    PushReturned =>
        /\ 0 <= state.current_block_frames
        /\ state.current_block_frames < state.block_frames
        /\ Len(state.residual) < state.channels

\* C36: after every push_samples call on a state with channels >= 1 and
\* sample_rate >= 1, 0 <= current_block_frames < block_frames, the residual
\* holds fewer than channels samples, and when current_block_frames = 0
\* after a whole-frame input the accumulators of every channel are zero.
C36_AfterPushInvariant ==
    PushReturned =>
        /\ 0 <= state.current_block_frames
        /\ state.current_block_frames < state.block_frames
        /\ Len(state.residual) < state.channels
        /\ (state.current_block_frames = 0 /\ WholeFrameInput)
              => AccumulatorsZero

\* For callers none of whose slices so far split a frame, an empty block in
\* progress has zero accumulators.
AccumulatorsZeroForWholeFrameCallers ==
    (PushReturned /\ whole /\ state.current_block_frames = 0)
        => AccumulatorsZero

\* ---------------------------------------------------------------------------
\* Part 9: the terminal user interface: tui::run, spawn_analysis, the event
\* drain and the key handlers of run_loop, App::load_from_cache and
\* App::reset_for_regeneration, over the thread of analyze_directory_async
\* of Part 1.  The views About, Info and Export and the selection keys touch
\* neither the track list, the album result nor the receiver and are left
\* out, as are the timings.
\* ---------------------------------------------------------------------------
MaxRuns == 2         \* analysis runs spawned by the TUI: 0..MaxRuns
MaxLaunches == 2     \* calls of tui::run on the directory: 0..MaxLaunches

\* TrackStatus
Pending         == [kind |-> "Pending",   data |-> <<>>]
Analyzing(p)    == [kind |-> "Analyzing", data |-> <<p>>]
Complete(r)     == [kind |-> "Complete",  data |-> <<r>>]
ErrorStatus(m)  == [kind |-> "Error",     data |-> <<m>>]

\* The file names tui::run and the 'y' handler obtain from scan_audio_files:
\* the directory is unchanged, the name of files[i] is its rank i.
Filenames == [k \in 1..file_count |-> k - 1]

\* App::new(filenames, path, jobs)
AppNew(filenames) ==
    [tracks |-> [k \in 1..Len(filenames) |->
                    [name |-> filenames[k], status |-> Pending]],
     album_result |-> <<>>, album_title |-> <<>>,
     view |-> "Main", loaded_from_cache |-> FALSE]

\* Variant of load_from_cache: a cached track goes to the row of its file
load_from_cache_by_name(a, result) ==
    [a EXCEPT
        !.tracks = [k \in 1..Len(a.tracks) |->
            IF \E j \in 1..Len(result.tracks) :
                  result.tracks[j].filename = a.tracks[k].name
            THEN [a.tracks[k] EXCEPT !.status = Complete(
                     result.tracks[CHOOSE j \in 1..Len(result.tracks) :
                        result.tracks[j].filename = a.tracks[k].name])]
            ELSE a.tracks[k]],
        !.album_title = <<result.album>>,
        !.album_result = <<result>>,
        !.loaded_from_cache = TRUE]

\* App::load_from_cache: cached track i goes to row i
load_from_cache(a, result) ==
    [a EXCEPT
        !.tracks = [k \in 1..Len(a.tracks) |->
            IF k <= Len(result.tracks)
            THEN [a.tracks[k] EXCEPT !.status = Complete(result.tracks[k])]
            ELSE a.tracks[k]],
        !.album_title = <<result.album>>,
        !.album_result = <<result>>,
        !.loaded_from_cache = TRUE]

\* App::reset_for_regeneration(filenames)
reset_for_regeneration(a, filenames) ==
    [a EXCEPT
        !.tracks = [k \in 1..Len(filenames) |->
                       [name |-> filenames[k], status |-> Pending]],
        !.album_result = <<>>,
        !.album_title = <<>>,
        !.loaded_from_cache = FALSE,
        !.view = "Main"]

\* spawn_analysis: a new channel, a new thread running
\* analyze_directory_async on the directory; the thread of an earlier run
\* keeps the sender of a channel whose receiver is dropped and is followed
\* no further.
FreshRun ==
    /\ cpc' = "scan"
    /\ ret' = NoResult
    /\ next_index' = 0
    /\ handles' = 0
    /\ joined' = 0
    /\ collected' = <<>>
    /\ wpc' = [w \in Workers |-> "unspawned"]
    /\ widx' = [w \in Workers |-> 0]
    /\ wpos' = [w \in Workers |-> 0]
    /\ wbytes' = [w \in Workers |-> 0]
    /\ wres' = [w \in Workers |-> NoResult]
    /\ wresults' = [w \in Workers |-> <<>>]
    /\ events' = NoEvents
    /\ chan' = NoEvents
    /\ rxAlive' = TRUE
    /\ analyzed' = EmptyBag
    /\ UNCHANGED input

\* The coordinator variables a step of the TUI thread leaves alone.
threadvars == <<input, cvars, next_index, wvars, events, rxAlive, analyzed>>

InitTui ==
    /\ NoStream
    /\ NoFile
    /\ NoScan
    /\ NoCache
    /\ NoMain
    /\ NoLoop
    /\ mode = "async"
    /\ files \in {f \in FileLists : DOMAIN f # {}}
    /\ jobs \in 1..MaxJobs
    /\ cpc = "idle"
    /\ ret = NoResult
    /\ next_index = 0
    /\ handles = 0
    /\ joined = 0
    /\ collected = <<>>
    /\ wpc = [w \in Workers |-> "unspawned"]
    /\ widx = [w \in Workers |-> 0]
    /\ wpos = [w \in Workers |-> 0]
    /\ wbytes = [w \in Workers |-> 0]
    /\ wres = [w \in Workers |-> NoResult]
    /\ wresults = [w \in Workers |-> <<>>]
    /\ events = NoEvents
    /\ chan = NoEvents
    /\ rxAlive = TRUE
    /\ analyzed = EmptyBag
    /\ tpc = "start"
    /\ app = NoApp
    /\ rx_run = 0
    /\ runs = 0
    /\ launches = 0
    /\ report_json = <<>>
    /\ list_run = 0
    /\ applied = {}

\* tui::run up to run_loop with a cached report that loads: the rows are
\* filled from it, rx is a channel nobody sends on.
LaunchCached ==
    /\ tpc \in {"start", "quit"}
    /\ launches < MaxLaunches
    /\ report_json # <<>>
    /\ app' = load_from_cache(AppNew(Filenames), report_json[1])
    /\ rx_run' = 0
    /\ list_run' = 0
    /\ tpc' = "loop"
    /\ launches' = launches + 1
    /\ UNCHANGED <<dvars, fvars, svars, kvars, mvars, lvars, coordvars, runs,
                   report_json, applied>>

\* tui::run up to run_loop with --regenerate or without a cached report:
\* spawn_analysis.
LaunchAnalysis ==
    /\ tpc \in {"start", "quit"}
    /\ launches < MaxLaunches
    /\ runs < MaxRuns
    /\ app' = AppNew(Filenames)
    /\ FreshRun
    /\ runs' = runs + 1
    /\ rx_run' = runs + 1
    /\ list_run' = runs + 1
    /\ tpc' = "loop"
    /\ launches' = launches + 1
    /\ UNCHANGED <<dvars, fvars, svars, kvars, mvars, lvars, report_json, applied>>

\* What a per-track event makes of the status of its row.
StatusAfter(ev) ==
    IF ev.type = "TrackStarted" THEN Analyzing(<<0, 1>>)
    ELSE IF ev.type = "TrackProgress" THEN Analyzing(ev.data)
    ELSE IF ev.type = "TrackCompleted" THEN Complete(ev.data[1])
    ELSE ErrorStatus(ev.data[1])

\* The events of the channel rx receives from; the dummy channel has none.
Queued(i) == IF rx_run = runs /\ rx_run # 0 THEN chan[i] ELSE <<>>

\* rx.try_recv() yields TrackStarted, TrackProgress, TrackCompleted or Error:
\* app.tracks.get_mut(index) takes the new status.
RecvTrackEvent ==
    /\ tpc = "loop"
    /\ \E i \in 0..MaxFiles :
          /\ Queued(i) # <<>>
          /\ LET ev == Head(chan[i])
             IN  /\ app' = IF ev.index < Len(app.tracks)
                           THEN [app EXCEPT !.tracks[ev.index + 1].status =
                                                StatusAfter(ev)]
                           ELSE app
                 /\ applied' = IF ev.index < Len(app.tracks)
                               THEN applied \cup {<<rx_run, list_run>>}
                               ELSE applied
          /\ chan' = [chan EXCEPT ![i] = Tail(@)]
    /\ UNCHANGED <<dvars, fvars, svars, kvars, mvars, lvars, threadvars, tpc,
                   rx_run, runs, launches, report_json, list_run>>

\* rx.try_recv() yields AlbumCompleted, which its sender queued after every
\* per-track event: cache::save_report with the outcome ignored, then
\* album_title and album_result are set.
RecvAlbumCompleted ==
    /\ tpc = "loop"
    /\ Queued(-1) # <<>>
    /\ \A i \in 0..MaxFiles : Queued(i) = <<>>
    /\ LET result == Head(chan[-1]).data[1]
       IN  /\ \E saved \in BOOLEAN :
                report_json' = IF saved THEN <<result>> ELSE report_json
           /\ app' = [app EXCEPT !.album_title = <<result.album>>,
                                 !.album_result = <<result>>]
    /\ chan' = [chan EXCEPT ![-1] = Tail(@)]
    /\ UNCHANGED <<dvars, fvars, svars, kvars, mvars, lvars, threadvars, tpc,
                   rx_run, runs, launches, list_run, applied>>

\* Variant of CanRegenerate: 'r' needs no album result
CanRegenerateAnytime == TRUE

\* KeyCode::Char('r'): if app.album_result.is_some()
CanRegenerate == app.album_result # <<>>

\* 'r' in the main view.
KeyR ==
    /\ tpc = "loop"
    /\ app.view = "Main"
    /\ CanRegenerate
    /\ app' = [app EXCEPT !.view = "RegenerateConfirm"]
    /\ UNCHANGED <<dvars, fvars, svars, kvars, mvars, lvars, coordvars, tpc,
                   rx_run, runs, launches, report_json, list_run, applied>>

\* 'y' or Enter in the confirmation view: rescan, reset_for_regeneration,
\* rx = spawn_analysis(..); the old receiver is dropped with what it held.
KeyYes ==
    /\ tpc = "loop"
    /\ app.view = "RegenerateConfirm"
    /\ runs < MaxRuns
    /\ app' = reset_for_regeneration(app, Filenames)
    /\ FreshRun
    /\ runs' = runs + 1
    /\ rx_run' = runs + 1
    /\ list_run' = runs + 1
    /\ UNCHANGED <<dvars, fvars, svars, kvars, mvars, lvars, tpc, launches,
                   report_json, applied>>

\* 'n' or Esc in the confirmation view.
KeyNo ==
    /\ tpc = "loop"
    /\ app.view = "RegenerateConfirm"
    /\ app' = [app EXCEPT !.view = "Main"]
    /\ UNCHANGED <<dvars, fvars, svars, kvars, mvars, lvars, coordvars, tpc,
                   rx_run, runs, launches, report_json, list_run, applied>>

\* 'q' in the main view: run_loop and tui::run return, the process exits and
\* its threads with it.
KeyQ ==
    /\ tpc = "loop"
    /\ app.view = "Main"
    /\ tpc' = "quit"
    /\ UNCHANGED <<dvars, fvars, svars, kvars, mvars, lvars, coordvars, app,
                   rx_run, runs, launches, report_json, list_run, applied>>

\* A step of the analysis thread while the process lives.
AnalysisThread ==
    /\ tpc = "loop"
    /\ \/ ScanFound
       \/ Spawn
       \/ SpawnDone
       \/ Join
       \/ AggregateAsync
       \/ \E w \in Workers : Fetch(w)
       \/ \E w \in Workers : Started(w)
       \/ \E w \in Workers : NextPacket(w)
       \/ \E w \in Workers : EndOfStream(w)
       \/ \E w \in Workers : Report(w)

NextTui ==
    \/ LaunchCached
    \/ LaunchAnalysis
    \/ RecvTrackEvent
    \/ RecvAlbumCompleted
    \/ KeyR
    \/ KeyYes
    \/ KeyNo
    \/ KeyQ
    \/ AnalysisThread

SpecTui == InitTui /\ [][NextTui]_vars

\* A regeneration run is being started: an analysis run is spawned inside
\* run_loop.
RegenerationStarts == runs' = runs + 1 /\ launches' = launches

\* The receiver belongs to the run spawned last or to the dummy channel, and
\* every event applied to a row came from the run spawned for that list.
OneRunFeedsTheList ==
    /\ rx_run \in {0, runs}
    /\ app.album_result = <<>> => rx_run = list_run
    /\ \A p \in applied : p[1] = p[2]

\* Starting a regeneration run needs an album result, clears it and replaces
\* the receiver by that of the new run.
RegenerationStep ==
    RegenerationStarts =>
        /\ app.album_result # <<>>
        /\ app'.album_result = <<>>
        /\ rx_run' # rx_run
        /\ rx_run' = runs'
        /\ list_run' = runs'

\* C37: in the TUI a regeneration run is started only while an album result
\* is present; starting it clears the album result and replaces the
\* receiver, so at most one analysis run feeds the track list and no event
\* of an earlier run is applied to the track list of a later run.
C37_OneRunFeedsTrackList ==
    []OneRunFeedsTheList /\ [][RegenerationStep]_vars

\* A regeneration run was started after the first run completed, and an
\* event of the second run has been applied to the new list.
C37_Witness ==
    /\ launches = 1
    /\ runs = 2
    /\ <<1, 1>> \in applied
    /\ <<2, 2>> \in applied

\* A regeneration run was started from a list loaded from the cache.
C37_WitnessFromCache ==
    /\ launches = 2
    /\ runs = 2
    /\ rx_run = 2
    /\ ~app.loaded_from_cache
    /\ app.tracks # <<>>

\* C38: when a TUI run reloads with load_from_cache the AlbumResult an
\* earlier TUI run saved at AlbumCompleted, over the same unchanged
\* directory, the row of each file shows the result of that same file.
C38_CachedRowShowsOwnFile ==
    (tpc = "loop" /\ app.loaded_from_cache) =>
        \A k \in 1..Len(app.tracks) :
           app.tracks[k].status.kind = "Complete"
              => app.tracks[k].status.data[1].filename = app.tracks[k].name

\* The rows filled from the cache show their own files when no file failed
\* and the cached tracks are in scan order.
CachedRowsOfSortedFullAlbum ==
    (/\ tpc = "loop"
     /\ app.loaded_from_cache
     /\ Len(app.album_result[1].tracks) = file_count
     /\ \A k \in 1..file_count : app.album_result[1].tracks[k].filename = k - 1)
    => \A k \in 1..Len(app.tracks) :
          /\ app.tracks[k].status.kind = "Complete"
          /\ app.tracks[k].status.data[1].filename = app.tracks[k].name

\* ---------------------------------------------------------------------------
\* Properties of the command line, continued
\* ---------------------------------------------------------------------------
\* main runs in plain directory mode: a directory, neither --tui nor --bulk.
PlainDirectoryMode ==
    /\ Validate(cli) = <<>>
    /\ cli.path = "dir"
    /\ ~cli.tui
    /\ ~cli.bulk

\* The step in which main runs through plain directory mode.
DirectoryModeStep ==
    (PlainDirectoryMode /\ mpc = "start" /\ mpc' = "done") =>
        IF ~cli.regenerate /\ base.json = "old"
        THEN /\ printed' = <<Printed(Rendering(cli), "cache")>>
             /\ analyses' = <<>>
             /\ writes' = <<>>
             /\ base' = base
        ELSE /\ Len(analyses') = 1
             /\ analyses'[1].target = "dir"
             /\ analyses'[1].ok =>
                   /\ writes' = <<ReportWrite("dir", "json")>> \o
                                (IF cli.txt THEN <<ReportWrite("dir", "txt")>>
                                 ELSE <<>>)
                   /\ printed' = <<Printed(Rendering(cli), "analysis")>>
                   /\ mexit' = <<Ok("()")>>

\* C39: in plain directory mode, without --regenerate and with a
\* dr_report.json that parses, the cached report is output, no analysis is
\* run and no file is written; in every other case the directory is
\* analyzed and, on success, save_report is called (whatever its outcome)
\* and save_text_report is called iff --txt was given.
C39_DirectoryModeCache == [][DirectoryModeStep]_vars

\* The cached report was output although --txt was given.
C39_Witness ==
    /\ PlainDirectoryMode
    /\ mpc = "done"
    /\ cli.txt
    /\ printed = <<Printed(Rendering(cli), "cache")>>
    /\ writes = <<>>

\* --regenerate on a directory with a cache: the analysis succeeded, the
\* save of the cache failed and left the old one, main returned Ok.
C39_WitnessSaveFailed ==
    /\ PlainDirectoryMode
    /\ mpc = "done"
    /\ cli.regenerate
    /\ ~cli.txt
    /\ base.json = "old"
    /\ writes = <<ReportWrite("dir", "json")>>
    /\ mexit = <<Ok("()")>>

\* The cache did not parse: the directory was analyzed and both reports
\* were written.
C39_WitnessUnparsable ==
    /\ PlainDirectoryMode
    /\ mpc = "done"
    /\ ~cli.regenerate
    /\ cli.txt
    /\ base.json = "new"
    /\ base.txt = "new"
    /\ Len(writes) = 2
====
